---- MODULE Spec2Model ----
(***************************************************************************)
(* A model of the leader_graph crawler: the proxy pool, the CSV-driven     *)
(* fetch stage (producers, consumers, result queue), the LLM biography     *)
(* stage, leader discovery, and organization ingestion.                    *)
(*                                                                         *)
(* Each subsystem has its own specification over the shared variables;     *)
(* the variables of the subsystems a specification does not use stay at    *)
(* their initial value.                                                    *)
(***************************************************************************)
EXTENDS Integers, Sequences, FiniteSets, TLC

VARIABLES
    \* ---- proxy pool (src/proxy/pool.py) and its holders
    proxies,        \* ProxyPool.proxies: the list of available proxy objects
    nextId,         \* number of proxy objects the providers have created so far
    held,           \* per thread: the proxy object it holds (current_proxy / proxy)
    holdKind,       \* per thread: "none", "producer" (provided_proxy) or "scraper"
    markedFailed,   \* proxy values for which return_proxy(.., mark_as_failed=True) was attempted
    usage,          \* per thread: current_proxy['_usage_count'] of the proxy it holds
    \* ---- fetch stage (src/processor/data_processor.py)
    mainpc,         \* process_fetch_stage: "start", "joinp", "joinq", "joinc", "returned"
    ppc,            \* per producer thread: "new", "run", "done", "dead"
    taskq,          \* per producer: its local task_queue (FIFO of tasks)
    retry,          \* retry_counts, per task
    frBound,        \* per producer: whether the local fetch_result has been assigned
    attempts,       \* per task: number of fetch_with_metadata calls made for it
    savedFiles,     \* tasks whose HTML file exists in the cache directory
    resultq,        \* self.result_queue: results waiting to be taken
    unfinished,     \* result_queue.unfinished_tasks (put increments, task_done decrements)
    putLog,         \* every result ever put on the result queue, in order
    stopEvent,      \* self.stop_event
    cpc,            \* per consumer thread: "loop", "proc", "final", "exited"
    cur,            \* per consumer: the result it took and is processing
    consumed,       \* results a consumer has finished processing
    original_df,    \* consumer -> its DataFrame: task -> html_cached
    csv,            \* the CSV file: task -> html_cached
    save_counter,   \* consumer -> results processed since its last save
    \* ---- LLM biography stage, database side (src/leader/bio_processor.py)
    structured,     \* c_org_leader_info.career_history_structured per leader (0 = empty)
    todo,           \* per run: the leaders get_leaders returned to it
    runpc,          \* per run: "new" before get_leaders, "running" after
    lpc,            \* per run and leader: position of process_leader
    events,         \* per run and leader: the extracted events_data (0 = empty)
    \* ---- LLM biography stage, API side (src/leader/bio_processor.py)
    limit_reached,  \* TokenCostTracker.limit_reached
    total_cost,     \* TokenCostTracker.total_cost
    epc,            \* per worker thread: "idle", or "calling" inside extract_biographical_events
    retry_count,    \* per worker thread: the local retry_count of the current call
    requests,       \* per worker thread: API requests sent by its current call
    callsMade,      \* number of extract_biographical_events calls started so far
    enteredAfterLimit, \* per worker thread: limit_reached was set when its current call began
    call_outcome,   \* worker -> how its last call ended: "none", "json", "empty", "raised"
    \* ---- leader discovery (src/leader/update_c_org_leader_info.py)
    hasRemark,      \* c_org_info rows whose remark column holds a page
    orgLeaders,     \* per organization: what extract_leaders returns for its remark
    orgNames,       \* per organization: c_org_info.org_name
    dbRows,         \* c_org_leader_info as committed, one row per leader uuid
    txRows,         \* c_org_leader_info as the open connection sees it
    ldpc,           \* update_c_org_leader_info: "idle" or "running"
    processed_ids,  \* process_database_records: the local processed_ids
    recIdx,         \* position of the record loop (records are ordered by id)
    pending,        \* leaders of the current record still to be upserted
    runsStarted,    \* number of update_c_org_leader_info runs started
    upserted,       \* per leader: organizations for which the upsert returned True
    upsertFailed,   \* some insert_or_update_leader call has returned False
    \* ---- organization ingestion (src/src/create_c_org_info.py)
    orgpc,          \* main: "start", "pass1", "pass2", "extracted", "inserted", "failed"
    sheet,          \* the rows of the input spreadsheet (primary and secondary cell)
    filled,         \* df['filled_primary_dept'], per row
    rowIdx,         \* position of the row loop of the current pass
    departments,    \* extract_department_info: the departments list
    dept_id_map,    \* extract_department_info: the keys of dept_id_map
    orgTable,       \* the rows of c_org_info after insert_into_database
    \* ---- organization page acquisition (src/org/update_c_org_info_remark.py)
    remark,         \* c_org_info.remark per organization (0 = empty)
    apc,            \* per run of fetch_and_store_html: "new", "loop", "fetching", "done"
    organizations,  \* per run: the remark values it read when it started
    aidx,           \* per run: position of the organization loop
    headless,       \* per run: SeleniumFetcher.headless
    retryNo,        \* per run: the loop variable retry of get_page_content
    switched,       \* per run: the current call switched to a headful session
    getsAfterSwitch,\* per run: driver.get calls of the current call after the switch
    fetchedBy,      \* per run: organizations it called driver.get for
    wroteBy,        \* per run: organizations whose remark it wrote
    \* ---- BaikeScraper.fetch_page on the shared scraper (src/scraper/baike_scraper.py)
    selenium_scraper, \* BaikeScraper.selenium_scraper: 0 (None) or a browser session
    openSessions,   \* browser sessions that are open
    spc,            \* per thread: position inside fetch_page
    attemptNo,      \* per thread: the loop variable attempt
    providedProxy,  \* per thread: the provided_proxy argument (0 = None)
    attemptProxy,   \* per thread: the local proxy of the current attempt (0 = None)
    opened,         \* per thread: the session its current attempt opened (0 = none)
    willReturn,     \* per thread: the attempt ends the call (return inside try/except)
    rejected,       \* per thread: proxy the previous attempt rejected (need_proxy_change)
    \* ---- organization field extraction (src/extract_org_info.py, src/html_extractor)
    office_addr,    \* c_org_info.office_addr per organization (0 = empty)
    pageHasTableAddr,   \* per organization: the page's info table has an address entry
    pageHasSectionAddr, \* per organization: the page has a section under a mapped heading
    xpc,            \* the extraction command: "idle", "table", "content"
    xidx,           \* position of the organization loop of the current pass
    xmode,          \* "both", "only_table" or "only_content"
    xupdate,        \* update_db (False when --output is given)
    tableMapsAddr,  \* the table mapping file of the run has an office_addr entry
    xruns,          \* number of extraction runs started
    \* ---- leader name filter (src/leader/update_c_org_leader_info.py)
    candidate,      \* the name passed to is_valid_leader_name
    accepted,       \* what the call returned
    namepc,         \* "ready" before the call, "checked" after it
    \* ---- one producer's task list (only_fetch_producer)
    task_queue,     \* the producer's list of tasks, head first
    retry_counts,   \* task -> failures counted so far
    fetch_bound,    \* the local fetch_result has been assigned
    chunkpc,        \* "run", "done" (loop ended) or "dead" (raised out of the loop)
    tries,          \* task -> calls of fetch_with_metadata made for it
    pendingAtFailure, \* task -> the tasks in the list when it last failed
    stillAhead,     \* task -> those of them not taken from the head since
    \* ---- parse stage run after the fetch stage on one DataProcessor (--stage full)
    mainFull,       \* main thread: "fetch", "parse", "joinp", "joinq", "returned"
    stop_event,     \* DataProcessor.stop_event, created once in __init__
    toParse,        \* the cached, not yet parsed tasks the parse stage loaded
    pchunk,         \* parse producer -> the tasks of its chunk still to visit
    pstate,         \* parse producer -> "new", "run" or "done"
    parseq,         \* result_queue during the parse stage
    punfinished,    \* result_queue.unfinished_tasks
    pcstate,        \* parse consumer -> "new", "loop" or "exited"
    parsedConsumed, \* tasks whose parse result a consumer has processed
    \* ---- request pacing of the LLM calls (bio_processor.py _wait_for_rate_limit)
    now,            \* the clock, in ticks
    last_request_time, \* BiographicalDataProcessor.last_request_time
    rpc,            \* worker -> "idle", "limiter", "send", "backoff"
    rretry,         \* worker -> retry_count of its current call
    wakeAt,         \* worker -> the tick its backoff sleep ends
    sentCount,      \* API requests sent so far, by all workers
    lastSent,       \* the tick of the latest API request
    \* ---- leader field extraction (src/leader/extract_org_leader_info.py)
    mpc,            \* process_leader: "start", "extracted", "merged", "written"
    content_data,   \* field_data as built from the content extractor: field -> text
    table_result,   \* the table extractor's result: mapped field -> text or ""
    field_data,     \* field_data after the merge
    leaderRow,      \* the leader's row of c_org_leader_info: field -> text
    \* ---- HTML cache (src/utils/html_cache.py, BaikeScraper.save_html_content)
    cachepc,        \* "start", "saved" (page written), "loaded" (task load done)
    person_name,    \* the person's name in the CSV
    cache_files,    \* the .html file names in the cache directory
    is_cached_flag, \* what is_cached returned at the task load
    \* ---- graph export: COLLEAGUES edges (src/src/mysql2neo4j.py)
    gpc,            \* "start", "imported", "current" (first query run), "done"
    works_for,      \* WORKS_FOR edges: <<person, organization>>
    worked_at,      \* WORKED_AT edges: person, organization -> complete period or NoStint
    colleagues,     \* COLLEAGUES edges: records a, b, workplace, overlapPeriod
    \* ---- graph export: SCHOOLMATES edges (src/src/mysql2neo4j.py)
    schoolpc,       \* "start" or "created" (the edge of the matched pair exists)
    r1,             \* the first person's STUDIED_AT edge of the matched row
    r2,             \* the second person's STUDIED_AT edge
    atTheSameTime,  \* the edge's atTheSameTime property
    overlapPeriod   \* the edge's overlapPeriod property, NoPeriod when absent

poolVars == <<proxies, nextId, held, holdKind, markedFailed, usage>>

fetchVars == <<mainpc, ppc, taskq, retry, frBound, attempts, savedFiles, resultq,
               unfinished, putLog, stopEvent, cpc, cur, consumed, original_df, csv,
               save_counter>>

dfVars == <<original_df, csv, save_counter>>

careerVars == <<structured, todo, runpc, lpc, events>>

costVars == <<limit_reached, total_cost, epc, retry_count, requests, callsMade,
              enteredAfterLimit, call_outcome>>

leaderVars == <<hasRemark, orgLeaders, orgNames, dbRows, txRows, ldpc, processed_ids,
                recIdx, pending, runsStarted, upserted, upsertFailed>>

orgVars == <<orgpc, sheet, filled, rowIdx, departments, dept_id_map, orgTable>>

acqVars == <<remark, apc, organizations, aidx, headless, retryNo, switched,
             getsAfterSwitch, fetchedBy, wroteBy>>

scraperVars == <<selenium_scraper, openSessions, spc, attemptNo, providedProxy,
                 attemptProxy, opened, willReturn, rejected>>

extractVars == <<office_addr, pageHasTableAddr, pageHasSectionAddr, xpc, xidx, xmode,
                 xupdate, tableMapsAddr, xruns>>

nameVars == <<candidate, accepted, namepc>>

chunkVars == <<task_queue, retry_counts, fetch_bound, chunkpc, tries,
               pendingAtFailure, stillAhead>>

fullVars == <<mainFull, stop_event, toParse, pchunk, pstate, parseq, punfinished, pcstate, parsedConsumed>>

rateVars == <<now, last_request_time, rpc, rretry, wakeAt, sentCount, lastSent>>

mergeVars == <<mpc, content_data, table_result, field_data, leaderRow>>

cacheVars == <<cachepc, person_name, cache_files, is_cached_flag>>

graphVars == <<gpc, works_for, worked_at, colleagues>>

schoolVars == <<schoolpc, r1, r2, atTheSameTime, overlapPeriod>>

vars == <<poolVars, fetchVars, careerVars, costVars, leaderVars, orgVars, acqVars,
          scraperVars, extractVars, nameVars, chunkVars,
          fullVars,
          rateVars,
          mergeVars,
          cacheVars,
          graphVars,
          schoolVars>>

nonPoolVars == <<fetchVars, careerVars, costVars, leaderVars, orgVars, acqVars,
    scraperVars, extractVars, nameVars, chunkVars,
    fullVars,
    rateVars,
    mergeVars,
    cacheVars,
    graphVars,
    schoolVars>>

nonFetchVars == <<poolVars, careerVars, costVars, leaderVars, orgVars, acqVars,
    scraperVars, extractVars, nameVars, chunkVars,
    fullVars,
    rateVars,
    mergeVars,
    cacheVars,
    graphVars,
    schoolVars>>

nonCareerVars == <<poolVars, fetchVars, costVars, leaderVars, orgVars, acqVars,
    scraperVars, extractVars, nameVars, chunkVars,
    fullVars,
    rateVars,
    mergeVars,
    cacheVars,
    graphVars,
    schoolVars>>

nonCostVars == <<poolVars, fetchVars, careerVars, leaderVars, orgVars, acqVars,
    scraperVars, extractVars, nameVars, chunkVars,
    fullVars,
    rateVars,
    mergeVars,
    cacheVars,
    graphVars,
    schoolVars>>

nonLeaderVars == <<poolVars, fetchVars, careerVars, costVars, orgVars, acqVars,
    scraperVars, extractVars, nameVars, chunkVars,
    fullVars,
    rateVars,
    mergeVars,
    cacheVars,
    graphVars,
    schoolVars>>

nonOrgVars == <<poolVars, fetchVars, careerVars, costVars, leaderVars, acqVars,
    scraperVars, extractVars, nameVars, chunkVars,
    fullVars,
    rateVars,
    mergeVars,
    cacheVars,
    graphVars,
    schoolVars>>

nonAcqVars == <<poolVars, fetchVars, careerVars, costVars, leaderVars, orgVars,
    scraperVars, extractVars, nameVars, chunkVars,
    fullVars,
    rateVars,
    mergeVars,
    cacheVars,
    graphVars,
    schoolVars>>

nonScraperVars == <<poolVars, fetchVars, careerVars, costVars, leaderVars, orgVars,
    acqVars, extractVars, nameVars, chunkVars,
    fullVars,
    rateVars,
    mergeVars,
    cacheVars,
    graphVars,
    schoolVars>>

nonExtractVars == <<poolVars, fetchVars, careerVars, costVars, leaderVars, orgVars,
    acqVars, scraperVars, nameVars, chunkVars,
    fullVars,
    rateVars,
    mergeVars,
    cacheVars,
    graphVars,
    schoolVars>>

nonNameVars == <<poolVars, fetchVars, careerVars, costVars, leaderVars, orgVars,
    acqVars, scraperVars, extractVars, chunkVars,
    fullVars,
    rateVars,
    mergeVars,
    cacheVars,
    graphVars,
    schoolVars>>

nonChunkVars == <<poolVars, fetchVars, careerVars, costVars, leaderVars, orgVars,
    acqVars, scraperVars, extractVars, nameVars,
    fullVars,
    rateVars,
    mergeVars,
    cacheVars,
    graphVars,
    schoolVars>>

nonFullVars == <<poolVars, fetchVars, careerVars, costVars, leaderVars, orgVars, acqVars, scraperVars, extractVars, nameVars, chunkVars,
    rateVars,
    mergeVars,
    cacheVars,
    graphVars,
    schoolVars>>

nonRateVars == <<poolVars, fetchVars, careerVars, costVars, leaderVars, orgVars, acqVars, scraperVars, extractVars, nameVars, chunkVars, fullVars,
    mergeVars,
    cacheVars,
    graphVars,
    schoolVars>>

nonMergeVars == <<poolVars, fetchVars, careerVars, costVars, leaderVars, orgVars, acqVars, scraperVars, extractVars, nameVars, chunkVars, fullVars, rateVars,
    cacheVars,
    graphVars,
    schoolVars>>

nonCacheVars == <<poolVars, fetchVars, careerVars, costVars, leaderVars, orgVars, acqVars, scraperVars, extractVars, nameVars, chunkVars, fullVars, rateVars, mergeVars,
    graphVars,
    schoolVars>>

nonGraphVars == <<poolVars, fetchVars, careerVars, costVars, leaderVars, orgVars, acqVars, scraperVars, extractVars, nameVars, chunkVars, fullVars, rateVars, mergeVars, cacheVars,
    schoolVars>>

nonSchoolVars == <<poolVars, fetchVars, careerVars, costVars, leaderVars, orgVars, acqVars, scraperVars, extractVars, nameVars, chunkVars, fullVars, rateVars, mergeVars, cacheVars, graphVars>>

(***************************************************************************)
(* Generic helpers                                                         *)
(***************************************************************************)
Range(s) == {s[i] : i \in 1..Len(s)}

SeqsUpTo(S, n) == UNION {[1..k -> S] : k \in 0..n}

(***************************************************************************)
(* Proxy pool                                                              *)
(***************************************************************************)
\* bounds of the pool model
NumThreads == 2
MaxBatch == 2
MaxObjs == 4
MaxUses == 6

Threads == 1..NumThreads
ProxyValues == {"a", "b"}

\* a thread that holds nothing
NoProxy == [val |-> "none", id |-> 0]

\* str(proxy) of a pool entry: 'http'/'https' both carry the same ip:port
ProxyStr(e) == e.val

Vals(s) == {ProxyStr(s[i]) : i \in 1..Len(s)}

\* pool.py 94-102: keep the first entry of every stringified value
RECURSIVE DedupFrom(_, _, _)
DedupFrom(s, seen, acc) ==
    IF s = <<>> THEN acc
    ELSE IF ProxyStr(Head(s)) \in seen
         THEN DedupFrom(Tail(s), seen, acc)
         ELSE DedupFrom(Tail(s), seen \cup {ProxyStr(Head(s))}, Append(acc, Head(s)))

Dedup(s) == DedupFrom(s, {}, <<>>)

\* the provider's answer as fresh proxy objects (providers.py builds a new dict per entry)
NewObjs(batch, base) == [i \in 1..Len(batch) |-> [val |-> batch[i], id |-> base + i]]

\* pool.py 89-110: accumulate, then deduplicate; an empty answer changes nothing
RefreshedPool(pool, batch, base) ==
    IF batch # <<>> THEN Dedup(pool \o NewObjs(batch, base)) ELSE pool

\* pool.py 58: list.pop() hands out the last entry and removes it
PoolAfterPopKeep(pool) == pool

PoolAfterPop(pool) == SubSeq(pool, 1, Len(pool) - 1)

PoppedProxy(pool) == pool[Len(pool)]

\* pool.py 12-170: ProxyPool defines no return_proxy, so the scraper's
\* hasattr(self.proxy_pool, 'return_proxy') guard is false
HasReturnProxy == FALSE

\* only_fetch_producer 736-738: current_proxy['_usage_count'] =
\* current_proxy.get('_usage_count', 0) + 1
CountedUse(n) == n + 1

PoolInit ==
    /\ proxies = <<>>
    /\ nextId = 0
    /\ held = [t \in Threads |-> NoProxy]
    /\ holdKind = [t \in Threads |-> "none"]
    /\ markedFailed = {}
    /\ usage = [t \in Threads |-> 0]

\* ProxyPool._refresh_proxies, called by _periodic_refresh every refresh_interval
RefreshProxies ==
    \E batch \in SeqsUpTo(ProxyValues, MaxBatch) :
        /\ nextId + Len(batch) <= MaxObjs
        /\ proxies' = RefreshedPool(proxies, batch, nextId)
        /\ nextId' = nextId + Len(batch)
        /\ UNCHANGED <<held, holdKind, markedFailed, usage, nonPoolVars>>

\* only_fetch_producer 720-734: a producer without a proxy calls get_proxy();
\* with an empty pool the call times out and returns None (the producer retries)
ProducerGetProxy(t) ==
    /\ holdKind[t] = "none"
    /\ IF proxies # <<>>
       THEN /\ held' = [held EXCEPT ![t] = PoppedProxy(proxies)]
            /\ holdKind' = [holdKind EXCEPT ![t] = "producer"]
            /\ proxies' = PoolAfterPop(proxies)
       ELSE UNCHANGED <<held, holdKind, proxies>>
    /\ usage' = [usage EXCEPT ![t] = 0]
    /\ UNCHANGED <<nextId, markedFailed, nonPoolVars>>

\* only_fetch_producer 736-751 and 784-797: a fetch with current_proxy counts
\* one more use of it; after a successful fetch the producer keeps the proxy
ProducerFetchOk(t) ==
    /\ holdKind[t] = "producer"
    /\ usage[t] < MaxUses
    /\ usage' = [usage EXCEPT ![t] = CountedUse(@)]
    /\ UNCHANGED <<proxies, nextId, held, holdKind, markedFailed, nonPoolVars>>

\* only_fetch_producer 760-763 / 813-815: any failure drops current_proxy
ProducerDiscardProxy(t) ==
    /\ holdKind[t] = "producer"
    /\ held' = [held EXCEPT ![t] = NoProxy]
    /\ holdKind' = [holdKind EXCEPT ![t] = "none"]
    /\ usage' = [usage EXCEPT ![t] = 0]
    /\ UNCHANGED <<proxies, nextId, markedFailed, nonPoolVars>>

\* BaikeScraper.fetch_page 62-64 without provided_proxy: the attempt pulls its own proxy
ScraperGetProxy(t) ==
    /\ holdKind[t] = "none"
    /\ proxies # <<>>
    /\ held' = [held EXCEPT ![t] = PoppedProxy(proxies)]
    /\ holdKind' = [holdKind EXCEPT ![t] = "scraper"]
    /\ proxies' = PoolAfterPop(proxies)
    /\ UNCHANGED <<nextId, markedFailed, usage, nonPoolVars>>

\* BaikeScraper.fetch_page 87-107: a failed attempt hands the proxy back marked
\* failed; the pool has no return_proxy, so nothing is recorded in the pool
ScraperReturnFailed(t) ==
    /\ holdKind[t] = "scraper"
    /\ markedFailed' = markedFailed \cup {ProxyStr(held[t])}
    /\ held' = [held EXCEPT ![t] = NoProxy]
    /\ holdKind' = [holdKind EXCEPT ![t] = "none"]
    /\ UNCHANGED <<proxies, nextId, usage, nonPoolVars>>

\* BaikeScraper.fetch_page 80-82: a valid page ends the attempt, the proxy is dropped
ScraperSucceed(t) ==
    /\ holdKind[t] = "scraper"
    /\ held' = [held EXCEPT ![t] = NoProxy]
    /\ holdKind' = [holdKind EXCEPT ![t] = "none"]
    /\ UNCHANGED <<proxies, nextId, markedFailed, usage, nonPoolVars>>

PoolNext ==
    \/ RefreshProxies
    \/ \E t \in Threads : ProducerGetProxy(t)
    \/ \E t \in Threads : ProducerFetchOk(t)
    \/ \E t \in Threads : ProducerDiscardProxy(t)
    \/ \E t \in Threads : ScraperGetProxy(t)
    \/ \E t \in Threads : ScraperReturnFailed(t)
    \/ \E t \in Threads : ScraperSucceed(t)

(***************************************************************************)
(* Fetch stage of the CSV-driven DataProcessor                             *)
(***************************************************************************)
\* bounds of the fetch model
NumProducers == 2
NumConsumers == 2
NumTasks == 2

\* DataProcessor.max_retries
MaxRetries == 3

Producers == 1..NumProducers
Consumers == 1..NumConsumers
Tasks == 1..NumTasks

\* split_tasks 218-220: task i (0-based) goes to chunk i % num_producers
RECURSIVE ChunkFrom(_, _)
ChunkFrom(p, t) ==
    IF t > NumTasks THEN <<>>
    ELSE IF ((t - 1) % NumProducers) + 1 = p
         THEN <<t>> \o ChunkFrom(p, t + 1)
         ELSE ChunkFrom(p, t + 1)

split_tasks(p) == ChunkFrom(p, 1)

NoResult == [task |-> 0, success |-> FALSE]

\* the outcomes of one fetch_with_metadata call: a success envelope, a failure
\* envelope, or an exception that leaves fetch_result unassigned
FetchOutcomes == {"ok", "fail", "exc"}

\* only_fetch_producer 839: the finally block reads fetch_result unless the retry
\* test already decided; on a never-assigned local that read raises
FinallyRaises(retryAfter, bound) == retryAfter < MaxRetries /\ ~bound

RequeuedAtHead(rest, t) == <<t>> \o rest

\* only_fetch_producer 772, 824: task_queue.append(task)
Requeued(rest, t) == Append(rest, t)

\* queue.Queue.task_done / put on unfinished_tasks
TaskDoneSkipped(u) == u

TaskDone(u) == u - 1

\* queue.Queue.join: returns once unfinished_tasks is zero
QueueJoinNoWait(u) == TRUE

QueueJoinReturns(u) == u = 0

\* Thread.join on a producer returns once the thread has ended, normally or not
ProducerEnded(p) == ppc[p] \in {"done", "dead"}

ProducerJoinReturns(p) == ProducerEnded(p)

\* DataProcessor.__init__ 56: save_interval
SaveInterval == 10

\* load_tasks_from_csv 176, process_fetch_stage 244: the tasks of the stage are
\* the rows whose html_cached is 'N'
InitialCsv == [t \in Tasks |-> "N"]

\* fetch_consumer 357-372: the html_cached cell written for a result (the
\* producer saved the file before it put a success)
CachedCell(res) == IF res.success THEN "Y" ELSE "N"

\* fetch_consumer 380: save_counter >= self.save_interval or result_queue.empty()
SaveDue(counter, q) == counter >= SaveInterval \/ q = <<>>

\* process_fetch_stage 258-263, fetch_consumer 328: the consumer threads are
\* started, and read the CSV, before the first producer is
FetchInit ==
    /\ mainpc = "start"
    /\ ppc = [p \in Producers |-> "new"]
    /\ taskq = [p \in Producers |-> split_tasks(p)]
    /\ retry = [t \in Tasks |-> 0]
    /\ frBound = [p \in Producers |-> FALSE]
    /\ attempts = [t \in Tasks |-> 0]
    /\ savedFiles = {}
    /\ resultq = <<>>
    /\ unfinished = 0
    /\ putLog = <<>>
    /\ stopEvent = FALSE
    /\ cpc = [c \in Consumers |-> "loop"]
    /\ cur = [c \in Consumers |-> NoResult]
    /\ consumed = {}
    /\ csv = InitialCsv
    /\ original_df = [c \in Consumers |-> InitialCsv]
    /\ save_counter = [c \in Consumers |-> 0]

\* process_fetch_stage 270-283: producers are started one after the other
StartProducer(p) ==
    /\ mainpc = "start"
    /\ ppc[p] = "new"
    /\ \A q \in Producers : q < p => ppc[q] # "new"
    /\ ppc' = [ppc EXCEPT ![p] = "run"]
    /\ mainpc' = IF p = NumProducers THEN "joinp" ELSE "start"
    /\ UNCHANGED <<taskq, retry, frBound, attempts, savedFiles, resultq, unfinished,
                   putLog, stopEvent, cpc, cur, consumed, dfVars, nonFetchVars>>

\* only_fetch_producer 705-848: one pass of the while loop over the head task
ProducerIterate(p) ==
    /\ ppc[p] = "run"
    /\ taskq[p] # <<>>
    /\ ~stopEvent
    /\ LET t == Head(taskq[p])
           rest == Tail(taskq[p])
       IN  IF t \in savedFiles
           THEN \* 715-717: already cached, skipped without a result
                /\ taskq' = [taskq EXCEPT ![p] = rest]
                /\ UNCHANGED <<ppc, retry, frBound, attempts, savedFiles, resultq,
                               unfinished, putLog>>
           ELSE \E outcome \in FetchOutcomes :
                LET retryAfter == IF outcome = "ok" THEN retry[t] ELSE retry[t] + 1
                    requeue == outcome # "ok" /\ retryAfter < MaxRetries
                    res == [task |-> t, success |-> (outcome = "ok")]
                IN  /\ attempts' = [attempts EXCEPT ![t] = @ + 1]
                    /\ retry' = [retry EXCEPT ![t] = retryAfter]
                    /\ frBound' = [frBound EXCEPT ![p] = @ \/ outcome # "exc"]
                    /\ savedFiles' = IF outcome = "ok" THEN savedFiles \cup {t}
                                     ELSE savedFiles
                    /\ taskq' = [taskq EXCEPT ![p] =
                                    IF requeue THEN Requeued(rest, t) ELSE rest]
                    /\ IF requeue
                       THEN UNCHANGED <<resultq, unfinished, putLog>>
                       ELSE /\ resultq' = Append(resultq, res)
                            /\ unfinished' = unfinished + 1
                            /\ putLog' = Append(putLog, res)
                    /\ ppc' = IF outcome = "exc" /\ FinallyRaises(retryAfter, frBound[p])
                              THEN [ppc EXCEPT ![p] = "dead"]
                              ELSE ppc
    /\ UNCHANGED <<mainpc, stopEvent, cpc, cur, consumed, dfVars, nonFetchVars>>

\* only_fetch_producer 705: the loop ends on an empty queue or a set stop event
ProducerExit(p) ==
    /\ ppc[p] = "run"
    /\ taskq[p] = <<>> \/ stopEvent
    /\ ppc' = [ppc EXCEPT ![p] = "done"]
    /\ UNCHANGED <<mainpc, taskq, retry, frBound, attempts, savedFiles, resultq,
                   unfinished, putLog, stopEvent, cpc, cur, consumed, dfVars, nonFetchVars>>

\* process_fetch_stage 285-292: join every producer, then set the stop event
SetStop ==
    /\ mainpc = "joinp"
    /\ \A p \in Producers : ProducerJoinReturns(p)
    /\ stopEvent' = TRUE
    /\ mainpc' = "joinq"
    /\ UNCHANGED <<ppc, taskq, retry, frBound, attempts, savedFiles, resultq,
                   unfinished, putLog, cpc, cur, consumed, dfVars, nonFetchVars>>

\* process_fetch_stage 294-296: result_queue.join()
QueueJoin ==
    /\ mainpc = "joinq"
    /\ QueueJoinReturns(unfinished)
    /\ mainpc' = "joinc"
    /\ UNCHANGED <<ppc, taskq, retry, frBound, attempts, savedFiles, resultq,
                   unfinished, putLog, stopEvent, cpc, cur, consumed, dfVars, nonFetchVars>>

\* process_fetch_stage 298-311: c.join(timeout=5) returns with or without the
\* consumer having ended, then the stage returns
ConsumersJoin ==
    /\ mainpc = "joinc"
    /\ mainpc' = "returned"
    /\ UNCHANGED <<ppc, taskq, retry, frBound, attempts, savedFiles, resultq,
                   unfinished, putLog, stopEvent, cpc, cur, consumed, dfVars, nonFetchVars>>

\* fetch_consumer 332-336: a result is available and taken
ConsumerGet(c) ==
    /\ cpc[c] = "loop"
    /\ resultq # <<>>
    /\ cur' = [cur EXCEPT ![c] = Head(resultq)]
    /\ resultq' = Tail(resultq)
    /\ cpc' = [cpc EXCEPT ![c] = "proc"]
    /\ UNCHANGED <<mainpc, ppc, taskq, retry, frBound, attempts, savedFiles,
                   unfinished, putLog, stopEvent, consumed, dfVars, nonFetchVars>>

\* fetch_consumer 332, 337-341: with an empty queue the consumer leaves the loop
\* when the stop event is set, and polls again otherwise
ConsumerEmpty(c) ==
    /\ cpc[c] = "loop"
    /\ resultq = <<>>
    /\ cpc' = IF stopEvent THEN [cpc EXCEPT ![c] = "final"] ELSE cpc
    /\ UNCHANGED <<mainpc, ppc, taskq, retry, frBound, attempts, savedFiles, resultq,
                   unfinished, putLog, stopEvent, cur, consumed, dfVars, nonFetchVars>>

\* fetch_consumer 343-394: the result is processed under result_lock: the row of
\* the consumer's own DataFrame is updated and, when a save is due, the whole
\* DataFrame is written over the CSV; task_done runs in the finally
ConsumerProcess(c) ==
    /\ cpc[c] = "proc"
    /\ consumed' = consumed \cup {cur[c]}
    /\ unfinished' = TaskDone(unfinished)
    /\ LET df == [original_df[c] EXCEPT ![cur[c].task] = CachedCell(cur[c])]
           due == SaveDue(save_counter[c] + 1, resultq)
       IN  /\ original_df' = [original_df EXCEPT ![c] = df]
           /\ csv' = IF due THEN df ELSE csv
           /\ save_counter' = [save_counter EXCEPT ![c] = IF due THEN 0 ELSE @ + 1]
    /\ cur' = [cur EXCEPT ![c] = NoResult]
    /\ cpc' = [cpc EXCEPT ![c] = "loop"]
    /\ UNCHANGED <<mainpc, ppc, taskq, retry, frBound, attempts, savedFiles, resultq,
                   putLog, stopEvent, nonFetchVars>>

\* fetch_consumer 399-405: the final save of the consumer's DataFrame over the
\* CSV, then the thread ends
ConsumerFinish(c) ==
    /\ cpc[c] = "final"
    /\ csv' = original_df[c]
    /\ cpc' = [cpc EXCEPT ![c] = "exited"]
    /\ UNCHANGED <<mainpc, ppc, taskq, retry, frBound, attempts, savedFiles, resultq,
                   unfinished, putLog, stopEvent, cur, consumed, original_df,
                   save_counter, nonFetchVars>>

FetchNext ==
    \/ \E p \in Producers : StartProducer(p)
    \/ \E p \in Producers : ProducerIterate(p)
    \/ \E p \in Producers : ProducerExit(p)
    \/ SetStop
    \/ QueueJoin
    \/ ConsumersJoin
    \/ \E c \in Consumers : ConsumerGet(c)
    \/ \E c \in Consumers : ConsumerEmpty(c)
    \/ \E c \in Consumers : ConsumerProcess(c)
    \/ \E c \in Consumers : ConsumerFinish(c)

\* the fetch stage's threads as the scheduler runs them: every thread that can
\* take a step eventually does
FetchFairness ==
    /\ \A p \in Producers : WF_vars(StartProducer(p)) /\ WF_vars(ProducerIterate(p))
                            /\ WF_vars(ProducerExit(p))
    /\ WF_vars(SetStop) /\ WF_vars(QueueJoin) /\ WF_vars(ConsumersJoin)
    /\ \A c \in Consumers : WF_vars(ConsumerGet(c)) /\ WF_vars(ConsumerEmpty(c))
                            /\ WF_vars(ConsumerProcess(c)) /\ WF_vars(ConsumerFinish(c))

(***************************************************************************)
(* LLM biography stage: BiographicalDataProcessor.process_leader            *)
(***************************************************************************)
\* bounds of the biography model
NumRuns == 2
NumLeaders == 2

Runs == 1..NumRuns
Leaders == 1..NumLeaders

\* the value of an empty / NULL career_history_structured column
EmptyColumn == 0

\* get_leaders 591-599 (skip_processed): rows whose structured column is empty
get_leaders(col) == {l \in Leaders : col[l] = EmptyColumn}

\* process_leader 524-532: the SELECT finds a row only when the column is
\* neither NULL nor ''
AlreadyStructured(col, l) == col[l] # EmptyColumn

CareerInit ==
    /\ structured = [l \in Leaders |-> EmptyColumn]
    /\ todo = [r \in Runs |-> {}]
    /\ runpc = [r \in Runs |-> "new"]
    /\ lpc = [r \in Runs |-> [l \in Leaders |-> "none"]]
    /\ events = [r \in Runs |-> [l \in Leaders |-> 0]]

\* process_leaders 637-653: a run loads its leaders and submits one
\* process_leader call per leader to its thread pool
StartRun(r) ==
    /\ runpc[r] = "new"
    /\ runpc' = [runpc EXCEPT ![r] = "running"]
    /\ todo' = [todo EXCEPT ![r] = get_leaders(structured)]
    /\ lpc' = [lpc EXCEPT ![r] =
                  [l \in Leaders |-> IF l \in get_leaders(structured)
                                     THEN "submitted" ELSE "none"]]
    /\ UNCHANGED <<structured, events, nonCareerVars>>

\* process_leader 493-513: the LLM call; an empty result ends the call with False.
\* The JSON a run obtains is named after the run (two calls need not agree).
ExtractEvents(r, l) ==
    /\ lpc[r][l] = "submitted"
    /\ \E ok \in BOOLEAN :
        /\ events' = [events EXCEPT ![r][l] = IF ok THEN r ELSE 0]
        /\ lpc' = [lpc EXCEPT ![r][l] = IF ok THEN "extracted" ELSE "failed"]
    /\ UNCHANGED <<structured, todo, runpc, nonCareerVars>>

\* process_leader 521-537: on its own connection, SELECT the row if it already
\* has structured data; if so the call ends as a success without writing
CheckExisting(r, l) ==
    /\ lpc[r][l] = "extracted"
    /\ lpc' = [lpc EXCEPT ![r][l] =
                  IF AlreadyStructured(structured, l) THEN "skipped" ELSE "checked"]
    /\ UNCHANGED <<structured, todo, runpc, events, nonCareerVars>>

\* process_leader 539-555: UPDATE ... SET career_history_structured = %s WHERE id = %s,
\* then commit
UpdateStructured(r, l) ==
    /\ lpc[r][l] = "checked"
    /\ structured' = [structured EXCEPT ![l] = events[r][l]]
    /\ lpc' = [lpc EXCEPT ![r][l] = "updated"]
    /\ UNCHANGED <<todo, runpc, events, nonCareerVars>>

CareerNext ==
    \/ \E r \in Runs : StartRun(r)
    \/ \E r \in Runs, l \in Leaders : ExtractEvents(r, l)
    \/ \E r \in Runs, l \in Leaders : CheckExisting(r, l)
    \/ \E r \in Runs, l \in Leaders : UpdateStructured(r, l)

(***************************************************************************)
(* LLM biography stage: cost ceiling and extract_biographical_events        *)
(***************************************************************************)
\* bounds of the cost model
NumWorkers == 2
MaxCalls == 3
MaxCost == 2
CostLimit == 2

\* extract_biographical_events 415: max_retries of the API retry loop
ApiMaxRetries == 3

Workers == 1..NumWorkers

\* the cost of one response; 0 stands for a response without usage information
ResponseCosts == 0..MaxCost

\* TokenCostTracker.check_cost_limit_reached 77-85 (cost_limit is configured)
check_cost_limit_reached(flag, total) == flag \/ total >= CostLimit

\* extract_biographical_events 354-356: the entry test on the flag
EntryShortCircuitsNever(flag) == FALSE

EntryShortCircuits(flag) == flag

\* extract_biographical_events 412, 476-478: the retry loop sits inside
\* "try: ... except Exception", which logs the error and returns {"events": []};
\* the re-raise of line 469 ends there
AfterOuterExcept(raised) == "empty"

CostInit ==
    /\ limit_reached = FALSE
    /\ total_cost = 0
    /\ epc = [w \in Workers |-> "idle"]
    /\ retry_count = [w \in Workers |-> 0]
    /\ requests = [w \in Workers |-> 0]
    /\ callsMade = 0
    /\ enteredAfterLimit = [w \in Workers |-> FALSE]
    /\ call_outcome = [w \in Workers |-> "none"]

\* extract_biographical_events 354-362: a worker starts an extraction call; with
\* the flag set it returns {"events": []} at once, otherwise it goes on to the
\* rate limiter and the request loop
BeginExtraction(w) ==
    /\ epc[w] = "idle"
    /\ callsMade < MaxCalls
    /\ callsMade' = callsMade + 1
    /\ enteredAfterLimit' = [enteredAfterLimit EXCEPT ![w] = limit_reached]
    /\ requests' = [requests EXCEPT ![w] = 0]
    /\ retry_count' = [retry_count EXCEPT ![w] = 0]
    /\ epc' = [epc EXCEPT ![w] =
                  IF EntryShortCircuits(limit_reached) THEN "idle" ELSE "calling"]
    /\ call_outcome' = [call_outcome EXCEPT ![w] =
                  IF EntryShortCircuits(limit_reached) THEN "empty" ELSE "none"]
    /\ UNCHANGED <<limit_reached, total_cost, nonCostVars>>

\* extract_biographical_events 417-461, 433 -> update_from_response 128-138: one
\* request that is answered; its cost is added and the limit test run under the lock
RequestAnswered(w) ==
    /\ epc[w] = "calling"
    /\ \E c \in ResponseCosts :
        /\ total_cost' = total_cost + c
        /\ limit_reached' = IF c > 0 THEN check_cost_limit_reached(limit_reached, total_cost + c)
                            ELSE limit_reached
    /\ requests' = [requests EXCEPT ![w] = @ + 1]
    /\ epc' = [epc EXCEPT ![w] = "idle"]
    /\ \E valid \in BOOLEAN :
        call_outcome' = [call_outcome EXCEPT ![w] = IF valid THEN "json" ELSE "empty"]
    /\ UNCHANGED <<retry_count, callsMade, enteredAfterLimit, nonCostVars>>

\* extract_biographical_events 466-474: a request that ends in a rate-limit or
\* timeout error is retried after a backoff until retry_count reaches max_retries
RequestRateLimited(w) ==
    /\ epc[w] = "calling"
    /\ requests' = [requests EXCEPT ![w] = @ + 1]
    /\ retry_count' = [retry_count EXCEPT ![w] = @ + 1]
    /\ epc' = [epc EXCEPT ![w] =
                  IF retry_count[w] + 1 >= ApiMaxRetries THEN "idle" ELSE "calling"]
    /\ call_outcome' = [call_outcome EXCEPT ![w] =
                  IF retry_count[w] + 1 >= ApiMaxRetries
                  THEN AfterOuterExcept("raised") ELSE @]
    /\ UNCHANGED <<limit_reached, total_cost, callsMade, enteredAfterLimit, nonCostVars>>

\* extract_biographical_events 476-478: any other API error ends the call
RequestFailed(w) ==
    /\ epc[w] = "calling"
    /\ requests' = [requests EXCEPT ![w] = @ + 1]
    /\ epc' = [epc EXCEPT ![w] = "idle"]
    /\ call_outcome' = [call_outcome EXCEPT ![w] = AfterOuterExcept("raised")]
    /\ UNCHANGED <<limit_reached, total_cost, retry_count, callsMade, enteredAfterLimit,
                   nonCostVars>>

CostNext ==
    \/ \E w \in Workers : BeginExtraction(w)
    \/ \E w \in Workers : RequestAnswered(w)
    \/ \E w \in Workers : RequestRateLimited(w)
    \/ \E w \in Workers : RequestFailed(w)

(***************************************************************************)
(* Leader discovery: update_c_org_leader_info                              *)
(***************************************************************************)
\* bounds of the leader discovery model
NumOrgs == 2
MaxLinks == 2
MaxLeaderRuns == 2

OrgIds == 1..NumOrgs
\* leader pages; extract_leaders 192-194 derives the leader uuid from the URL
Persons == {"x", "y"}
OrgNameChoices == {"n1", "n2"}

\* c_org_info.uuid of an organization
OrgUuid(o) == <<"org", o>>

\* no row for this leader uuid
NoRow == [ids |-> <<>>, uuids |-> <<>>, names |-> <<>>]

RowExists(row) == row.ids # <<>>

\* insert_or_update_leader 248-257: "if v not in list: list.append(v)"
AppendIfAbsent(list, v) == IF v \in Range(list) THEN list ELSE Append(list, v)

\* insert_or_update_leader 239-265: the three lists after the UPDATE
UpdatedRow(row, o, name) ==
    [ids |-> AppendIfAbsent(row.ids, o),
     uuids |-> AppendIfAbsent(row.uuids, OrgUuid(o)),
     names |-> AppendIfAbsent(row.names, name)]

\* insert_or_update_leader 267-282: the row the INSERT creates
InsertedRow(o, name) == [ids |-> <<o>>, uuids |-> <<OrgUuid(o)>>, names |-> <<name>>]

\* insert_or_update_leader 283: the insert branch commits the transaction
CommittedAfterInsert(db, tx) == tx

\* insert_or_update_leader 260-265: the update branch executes the UPDATE and
\* returns; nothing is committed
CommittedAfterUpdate(db, tx) == db

\* get_processed_org_ids 293-311
get_processed_org_ids(rows) == UNION {Range(rows[p].ids) : p \in Persons}

LeaderInit ==
    /\ hasRemark = {}
    /\ orgLeaders = [o \in OrgIds |-> <<>>]
    /\ orgNames = [o \in OrgIds |-> "n1"]
    /\ dbRows = [p \in Persons |-> NoRow]
    /\ txRows = [p \in Persons |-> NoRow]
    /\ ldpc = "idle"
    /\ processed_ids = {}
    /\ recIdx = 1
    /\ pending = <<>>
    /\ runsStarted = 0
    /\ upserted = [p \in Persons |-> <<>>]
    /\ upsertFailed = FALSE

\* the earlier stages: create_c_org_info stores the organization, and
\* fetch_and_store_html (update_c_org_info_remark.py) stores its page in remark.  The page is
\* represented by the leaders extract_leaders 75-206 finds in it, in link order.
\* A remark is written once (fetch_and_store_html 324-327 skips a filled one); a
\* run reads all records when it starts (fetchall, 337), so a page stored while
\* a run is under way is first seen by the next run.
StoreOrgPage(o) ==
    /\ ldpc = "idle"
    /\ o \notin hasRemark
    /\ hasRemark' = hasRemark \cup {o}
    /\ \E links \in SeqsUpTo(Persons, MaxLinks), name \in OrgNameChoices :
        /\ orgLeaders' = [orgLeaders EXCEPT ![o] = links]
        /\ orgNames' = [orgNames EXCEPT ![o] = name]
    /\ UNCHANGED <<dbRows, txRows, ldpc, processed_ids, recIdx, pending, runsStarted,
                   upserted, upsertFailed, nonLeaderVars>>

\* update_c_org_leader_info 377-381 and process_database_records 314-321:
\* connect, then read the processed organization ids
LeaderStartRun ==
    /\ ldpc = "idle"
    /\ runsStarted < MaxLeaderRuns
    /\ ldpc' = "running"
    /\ runsStarted' = runsStarted + 1
    /\ txRows' = dbRows
    /\ processed_ids' = get_processed_org_ids(dbRows)
    /\ recIdx' = 1
    /\ pending' = <<>>
    /\ UNCHANGED <<hasRemark, orgLeaders, orgNames, dbRows, upserted, upsertFailed,
                   nonLeaderVars>>

\* process_database_records 329-357: a record without remark is not selected, a
\* record whose id is in processed_ids (or whose page is too short) is skipped
SkipRecord ==
    /\ ldpc = "running"
    /\ pending = <<>>
    /\ recIdx \in OrgIds
    /\ recIdx \notin hasRemark \/ recIdx \in processed_ids
    /\ recIdx' = recIdx + 1
    /\ UNCHANGED <<hasRemark, orgLeaders, orgNames, dbRows, txRows, ldpc, processed_ids,
                   pending, runsStarted, upserted, upsertFailed, nonLeaderVars>>

\* process_database_records 359-370: extract the leaders of the record
ScanRecord ==
    /\ ldpc = "running"
    /\ pending = <<>>
    /\ recIdx \in OrgIds
    /\ recIdx \in hasRemark
    /\ recIdx \notin processed_ids
    /\ pending' = orgLeaders[recIdx]
    /\ recIdx' = IF orgLeaders[recIdx] = <<>> THEN recIdx + 1 ELSE recIdx
    /\ UNCHANGED <<hasRemark, orgLeaders, orgNames, dbRows, txRows, ldpc, processed_ids,
                   runsStarted, upserted, upsertFailed, nonLeaderVars>>

\* insert_or_update_leader 227-290 for the next leader of the current record.
\* A database error is caught: rollback, return False.
UpsertLeader ==
    /\ ldpc = "running"
    /\ pending # <<>>
    /\ LET p == Head(pending)
           o == recIdx
           ins == [txRows EXCEPT ![p] = InsertedRow(o, orgNames[o])]
           upd == [txRows EXCEPT ![p] = UpdatedRow(txRows[p], o, orgNames[o])]
       IN  \E dbok \in BOOLEAN :
            /\ IF ~dbok
               THEN /\ txRows' = dbRows
                    /\ upsertFailed' = TRUE
                    /\ UNCHANGED <<dbRows, upserted>>
               ELSE /\ upserted' = [upserted EXCEPT ![p] = AppendIfAbsent(@, o)]
                    /\ UNCHANGED upsertFailed
                    /\ IF RowExists(txRows[p])
                       THEN /\ txRows' = upd
                            /\ dbRows' = CommittedAfterUpdate(dbRows, upd)
                       ELSE /\ txRows' = ins
                            /\ dbRows' = CommittedAfterInsert(dbRows, ins)
    /\ pending' = Tail(pending)
    /\ recIdx' = IF Tail(pending) = <<>> THEN recIdx + 1 ELSE recIdx
    /\ UNCHANGED <<hasRemark, orgLeaders, orgNames, ldpc, processed_ids, runsStarted,
                   nonLeaderVars>>

\* update_c_org_leader_info 383-385: the loop is over, conn.close() without a
\* commit discards what the transaction still holds
LeaderEndRun ==
    /\ ldpc = "running"
    /\ pending = <<>>
    /\ recIdx \notin OrgIds
    /\ ldpc' = "idle"
    /\ txRows' = dbRows
    /\ UNCHANGED <<hasRemark, orgLeaders, orgNames, dbRows, processed_ids, recIdx,
                   pending, runsStarted, upserted, upsertFailed, nonLeaderVars>>

\* process_database_records 372-374 and update_c_org_leader_info 387-388: an
\* exception in the loop (or an interrupt) ends the run; the connection is
\* dropped with its open transaction
LeaderAbortRun ==
    /\ ldpc = "running"
    /\ ldpc' = "idle"
    /\ txRows' = dbRows
    /\ pending' = <<>>
    /\ UNCHANGED <<hasRemark, orgLeaders, orgNames, dbRows, processed_ids, recIdx,
                   runsStarted, upserted, upsertFailed, nonLeaderVars>>

LeaderNext ==
    \/ \E o \in OrgIds : StoreOrgPage(o)
    \/ LeaderStartRun
    \/ SkipRecord
    \/ ScanRecord
    \/ UpsertLeader
    \/ LeaderEndRun
    \/ LeaderAbortRun

(***************************************************************************)
(* Organization ingestion: create_c_org_info                               *)
(***************************************************************************)
\* bound of the ingestion model
MaxRows == 3

\* department names are strings, written as sequences of characters
DeptNames == {<<"p">>, <<"q">>, <<"s">>}
\* a cell that is NaN, '' or '/'
EmptyCell == <<>>
Cells == DeptNames \cup {EmptyCell}
SheetRows == [primary : Cells, secondary : Cells]

\* current_primary_dept before any primary cell was seen (None)
NoneDept == <<>>
\* parent_uuid None
NoParent == <<>>

\* generate_department_id 7-19: the MD5 digest of the name; equal names give
\* equal ids and different names different ids
generate_department_id(name) == <<"md5", name>>

\* extract_department_info 181: f"{secondary_dept}_{primary_dept}"
unique_name(secondary, primary) == secondary \o <<"_">> \o primary

\* extract_department_info 57-68: fill an empty primary cell from the nearest
\* non-empty one above it
FilledPrimary(sh, i) ==
    LET above == {j \in 1..i : sh[j].primary # EmptyCell}
    IN  IF above = {} THEN NoneDept
        ELSE sh[CHOOSE j \in above : \A k \in above : k <= j].primary

\* extract_department_info 129-132: dept_id_map.get(primary_dept, None)
ParentId(primary, map) ==
    IF primary = NoneDept \/ primary \notin map THEN NoParent
    ELSE generate_department_id(primary)

\* extract_department_info 171-175: the first level-2 department of that name
ExistingDept(depts, name) ==
    LET hits == {i \in 1..Len(depts) : depts[i].org_name = name /\ depts[i].org_level = 2}
    IN  IF hits = {} THEN 0 ELSE CHOOSE i \in hits : \A k \in hits : i <= k

DeptInfo(uuid, name, level, parent) ==
    [uuid |-> uuid, org_name |-> name, org_level |-> level, parent_uuid |-> parent]

\* c_org_info: UNIQUE KEY idx_uuid (uuid), 257
UuidsDistinct(depts) ==
    \A i, j \in 1..Len(depts) : i # j => depts[i].uuid # depts[j].uuid

OrgInit ==
    /\ orgpc = "start"
    /\ sheet = <<>>
    /\ filled = <<>>
    /\ rowIdx = 1
    /\ departments = <<>>
    /\ dept_id_map = {}
    /\ orgTable = <<>>

\* extract_department_info 38-72: read the file and fill the primary column
ReadSpreadsheet ==
    /\ orgpc = "start"
    /\ \E sh \in SeqsUpTo(SheetRows, MaxRows) :
        /\ sheet' = sh
        /\ filled' = [i \in 1..Len(sh) |-> FilledPrimary(sh, i)]
    /\ orgpc' = "pass1"
    /\ rowIdx' = 1
    /\ UNCHANGED <<departments, dept_id_map, orgTable, nonOrgVars>>

\* extract_department_info 75-117: one row of the level-1 loop
PrimaryRow ==
    /\ orgpc = "pass1"
    /\ rowIdx <= Len(sheet)
    /\ LET primary_dept == filled[rowIdx]
       IN  IF primary_dept # NoneDept /\ primary_dept \notin dept_id_map
           THEN /\ dept_id_map' = dept_id_map \cup {primary_dept}
                /\ departments' = Append(departments,
                       DeptInfo(generate_department_id(primary_dept), primary_dept, 1, NoParent))
           ELSE UNCHANGED <<departments, dept_id_map>>
    /\ rowIdx' = rowIdx + 1
    /\ UNCHANGED <<orgpc, sheet, filled, orgTable, nonOrgVars>>

\* extract_department_info 119-120: the level-1 loop is over, the level-2 loop starts
StartSecondPass ==
    /\ orgpc = "pass1"
    /\ rowIdx > Len(sheet)
    /\ orgpc' = "pass2"
    /\ rowIdx' = 1
    /\ UNCHANGED <<sheet, filled, departments, dept_id_map, orgTable, nonOrgVars>>

\* extract_department_info 120-194: one row of the level-2 loop
SecondaryRow ==
    /\ orgpc = "pass2"
    /\ rowIdx <= Len(sheet)
    /\ LET secondary_dept == sheet[rowIdx].secondary
           primary_dept == filled[rowIdx]
           parent_id == ParentId(primary_dept, dept_id_map)
           e == ExistingDept(departments, secondary_dept)
       IN  IF secondary_dept = EmptyCell
           THEN UNCHANGED <<departments, dept_id_map>>
           ELSE IF secondary_dept \notin dept_id_map
           THEN /\ dept_id_map' = dept_id_map \cup {secondary_dept}
                /\ departments' = Append(departments,
                       DeptInfo(generate_department_id(secondary_dept), secondary_dept, 2, parent_id))
           ELSE IF e # 0 /\ departments[e].parent_uuid # parent_id /\ parent_id # NoParent
           THEN /\ departments' = Append(departments,
                       DeptInfo(generate_department_id(unique_name(secondary_dept, primary_dept)),
                                secondary_dept, 2, parent_id))
                /\ UNCHANGED dept_id_map
           ELSE UNCHANGED <<departments, dept_id_map>>
    /\ rowIdx' = rowIdx + 1
    /\ UNCHANGED <<orgpc, sheet, filled, orgTable, nonOrgVars>>

\* extract_department_info 196: return departments
ReturnDepartments ==
    /\ orgpc = "pass2"
    /\ rowIdx > Len(sheet)
    /\ orgpc' = "extracted"
    /\ UNCHANGED <<sheet, filled, rowIdx, departments, dept_id_map, orgTable, nonOrgVars>>

\* insert_into_database 283-332: one transaction inserts every department; a
\* duplicate uuid violates idx_uuid, the error is caught and all is rolled back
InsertIntoDatabase ==
    /\ orgpc = "extracted"
    /\ IF UuidsDistinct(departments)
       THEN orgTable' = departments /\ orgpc' = "inserted"
       ELSE orgTable' = orgTable /\ orgpc' = "failed"
    /\ UNCHANGED <<sheet, filled, rowIdx, departments, dept_id_map, nonOrgVars>>

OrgNext ==
    \/ ReadSpreadsheet
    \/ PrimaryRow
    \/ StartSecondPass
    \/ SecondaryRow
    \/ ReturnDepartments
    \/ InsertIntoDatabase

(***************************************************************************)
(* Organization page acquisition: fetch_and_store_html                     *)
(***************************************************************************)
\* bound of the acquisition model
NumAcqOrgs == 3

AcqOrgs == 1..NumAcqOrgs
\* two invocations of the script; they may overlap
AcqRuns == {1, 2}

\* an empty / NULL remark
EmptyRemark == 0

\* the last organization of the table has no source_url
HasSourceUrl(o) == o < NumAcqOrgs

\* get_page_content 76: max_retries
FetcherMaxRetries == 3

\* what the browser shows after driver.get: a full page, the bot-check page, a
\* page shorter than 5000 bytes, or a WebDriverException
PageOutcomes == {"ok", "botcheck", "short", "exc"}

RemarkSkipsNever(r) == FALSE

\* fetch_and_store_html 324-327: "if remark: continue"
RemarkSkips(r) == r # EmptyRemark

\* get_page_content 91: for retry in range(max_retries) -- whether another
\* iteration follows the one numbered n
HasNextIteration(n) == n + 1 < FetcherMaxRetries

\* get_page_content 108: retry == max_retries - 1
IsFinalRetry(n) == n = FetcherMaxRetries - 1

AcqInit ==
    /\ remark = [o \in AcqOrgs |-> EmptyRemark]
    /\ apc = [r \in AcqRuns |-> "new"]
    /\ organizations = [r \in AcqRuns |-> [o \in AcqOrgs |-> EmptyRemark]]
    /\ aidx = [r \in AcqRuns |-> 1]
    /\ headless = [r \in AcqRuns |-> TRUE]
    /\ retryNo = [r \in AcqRuns |-> 0]
    /\ switched = [r \in AcqRuns |-> FALSE]
    /\ getsAfterSwitch = [r \in AcqRuns |-> 0]
    /\ fetchedBy = [r \in AcqRuns |-> {}]
    /\ wroteBy = [r \in AcqRuns |-> {}]

\* fetch_and_store_html 294-313: create the headless fetcher, read the records
AcqStartRun(r) ==
    /\ apc[r] = "new"
    /\ apc' = [apc EXCEPT ![r] = "loop"]
    /\ organizations' = [organizations EXCEPT ![r] = remark]
    /\ UNCHANGED <<remark, aidx, headless, retryNo, switched, getsAfterSwitch,
                   fetchedBy, wroteBy, nonAcqVars>>

\* fetch_and_store_html 315-331: a record with a remark, or without a
\* source_url, is skipped
AcqSkipOrg(r) ==
    /\ apc[r] = "loop"
    /\ aidx[r] \in AcqOrgs
    /\ RemarkSkips(organizations[r][aidx[r]]) \/ ~HasSourceUrl(aidx[r])
    /\ aidx' = [aidx EXCEPT ![r] = @ + 1]
    /\ UNCHANGED <<remark, apc, organizations, headless, retryNo, switched,
                   getsAfterSwitch, fetchedBy, wroteBy, nonAcqVars>>

\* fetch_and_store_html 333-335 and get_page_content 87-91: the call begins
AcqBeginFetch(r) ==
    /\ apc[r] = "loop"
    /\ aidx[r] \in AcqOrgs
    /\ ~RemarkSkips(organizations[r][aidx[r]])
    /\ HasSourceUrl(aidx[r])
    /\ apc' = [apc EXCEPT ![r] = "fetching"]
    /\ retryNo' = [retryNo EXCEPT ![r] = 0]
    /\ switched' = [switched EXCEPT ![r] = FALSE]
    /\ getsAfterSwitch' = [getsAfterSwitch EXCEPT ![r] = 0]
    /\ UNCHANGED <<remark, organizations, aidx, headless, fetchedBy, wroteBy, nonAcqVars>>

\* get_page_content 92-145: one iteration of the retry loop (driver.get and
\* what follows it); when the call returns, fetch_and_store_html 337-345 stores
\* a non-empty result in remark (the UPDATE may fail) and goes to the next record
AcqGet(r) ==
    /\ apc[r] = "fetching"
    /\ LET o == aidx[r]
           cur_retry == retryNo[r]
       IN  \E page \in PageOutcomes, dbok \in BOOLEAN :
            LET switches == page = "botcheck" /\ IsFinalRetry(cur_retry) /\ headless[r]
                continues ==
                    CASE page = "ok" -> FALSE
                      [] page = "botcheck" -> IF IsFinalRetry(cur_retry) THEN headless[r] ELSE TRUE
                      [] page = "short" -> HasNextIteration(cur_retry)
                      [] page = "exc" -> TRUE
                \* a continue (or a handled exception) goes to the next iteration
                \* if range(max_retries) has one; otherwise the loop is over
                loops == continues /\ HasNextIteration(cur_retry)
                hasHtml == ~continues /\ page \in {"ok", "short"}
            IN  /\ fetchedBy' = [fetchedBy EXCEPT ![r] = @ \cup {o}]
                /\ getsAfterSwitch' = [getsAfterSwitch EXCEPT ![r] =
                                          IF switched[r] THEN @ + 1 ELSE @]
                /\ headless' = [headless EXCEPT ![r] = IF switches THEN FALSE ELSE @]
                /\ switched' = [switched EXCEPT ![r] = @ \/ switches]
                /\ IF loops
                   THEN /\ retryNo' = [retryNo EXCEPT ![r] = cur_retry + 1]
                        /\ UNCHANGED <<remark, apc, aidx, wroteBy>>
                   ELSE /\ retryNo' = retryNo
                        /\ apc' = [apc EXCEPT ![r] = "loop"]
                        /\ aidx' = [aidx EXCEPT ![r] = @ + 1]
                        /\ IF hasHtml /\ dbok
                           THEN /\ remark' = [remark EXCEPT ![o] = r]
                                /\ wroteBy' = [wroteBy EXCEPT ![r] = @ \cup {o}]
                           ELSE UNCHANGED <<remark, wroteBy>>
    /\ UNCHANGED <<organizations, nonAcqVars>>

\* fetch_and_store_html 347-357: the loop is over; disconnect, close the fetcher
AcqEndRun(r) ==
    /\ apc[r] = "loop"
    /\ aidx[r] \notin AcqOrgs
    /\ apc' = [apc EXCEPT ![r] = "done"]
    /\ UNCHANGED <<remark, organizations, aidx, headless, retryNo, switched,
                   getsAfterSwitch, fetchedBy, wroteBy, nonAcqVars>>

AcqNext ==
    \/ \E r \in AcqRuns : AcqStartRun(r)
    \/ \E r \in AcqRuns : AcqSkipOrg(r)
    \/ \E r \in AcqRuns : AcqBeginFetch(r)
    \/ \E r \in AcqRuns : AcqGet(r)
    \/ \E r \in AcqRuns : AcqEndRun(r)

(***************************************************************************)
(* BaikeScraper.fetch_page, one scraper instance shared by the producers   *)
(***************************************************************************)
\* bound of the scraper model
NumScraperThreads == 2

ScraperThreads == 1..NumScraperThreads

\* BaikeScraper.__init__ 22: max_retries
ScraperMaxRetries == 3

\* None, for a proxy or a session reference
NoneRef == 0

\* the browser session that attempt n of thread t starts (every SeleniumScraper
\* starts its own webdriver.Chrome)
SessionOf(t, n) == (t - 1) * ScraperMaxRetries + n + 1

SessionsOf(t) == {SessionOf(t, n) : n \in 0..(ScraperMaxRetries - 1)}

\* the proxy object the producer thread t holds as current_proxy
ProducerProxy(t) == t

\* the proxy object get_proxy hands to attempt n of thread t: the pool pops it,
\* so it is an object no one else holds
PoolProxy(t, n) == NumScraperThreads + SessionOf(t, n)

\* what an attempt obtains: a valid page, an invalid page, an invalid page for
\* which the validator asks for another proxy, or nothing
AttemptOutcomes == {"valid", "invalid", "change", "none"}

\* fetch_page 62-64: "proxy = provided_proxy; if not proxy and self.proxy_pool:
\* proxy = self.proxy_pool.get_proxy()" -- whether the attempt asks the pool
AsksPool(provided) == provided = NoneRef

\* fetch_page 109: attempt == self.max_retries - 1
IsLastAttempt(n) == n = ScraperMaxRetries - 1

ScraperInit ==
    /\ selenium_scraper = NoneRef
    /\ openSessions = {}
    /\ spc = [t \in ScraperThreads |-> "idle"]
    /\ attemptNo = [t \in ScraperThreads |-> 0]
    /\ providedProxy = [t \in ScraperThreads |-> NoneRef]
    /\ attemptProxy = [t \in ScraperThreads |-> NoneRef]
    /\ opened = [t \in ScraperThreads |-> NoneRef]
    /\ willReturn = [t \in ScraperThreads |-> FALSE]
    /\ rejected = [t \in ScraperThreads |-> NoneRef]

\* only_fetch_producer 745-751 -> fetch_with_metadata 174 -> fetch_page 59: the
\* producer passes its current_proxy (a proxy object it got from the pool) or None
ScraperCall(t) ==
    /\ spc[t] = "idle"
    /\ \E given \in BOOLEAN :
        providedProxy' = [providedProxy EXCEPT ![t] =
                             IF given THEN ProducerProxy(t) ELSE NoneRef]
    /\ spc' = [spc EXCEPT ![t] = "top"]
    /\ attemptNo' = [attemptNo EXCEPT ![t] = 0]
    /\ rejected' = [rejected EXCEPT ![t] = NoneRef]
    /\ UNCHANGED <<selenium_scraper, openSessions, attemptProxy, opened, willReturn,
                   nonScraperVars>>

\* fetch_page 60-71: choose the proxy of the attempt (get_proxy returns None
\* when the pool stays empty), then construct the SeleniumScraper and store it
\* in self.selenium_scraper.  When webdriver.Chrome fails the constructor raises
\* and nothing is stored.
ScraperOpen(t) ==
    /\ spc[t] = "top"
    /\ \E fromPool \in BOOLEAN, started \in BOOLEAN :
        LET proxy == IF ~AsksPool(providedProxy[t]) THEN providedProxy[t]
                     ELSE IF fromPool THEN PoolProxy(t, attemptNo[t]) ELSE NoneRef
            session == SessionOf(t, attemptNo[t])
        IN  /\ attemptProxy' = [attemptProxy EXCEPT ![t] = proxy]
            /\ IF started
               THEN /\ openSessions' = openSessions \cup {session}
                    /\ selenium_scraper' = session
                    /\ opened' = [opened EXCEPT ![t] = session]
                    /\ spc' = [spc EXCEPT ![t] = "opened"]
                    /\ UNCHANGED willReturn
               ELSE /\ opened' = [opened EXCEPT ![t] = NoneRef]
                    /\ willReturn' = [willReturn EXCEPT ![t] = IsLastAttempt(attemptNo[t])]
                    /\ spc' = [spc EXCEPT ![t] = "fin_check"]
                    /\ UNCHANGED <<openSessions, selenium_scraper>>
    /\ UNCHANGED <<attemptNo, providedProxy, rejected, nonScraperVars>>

\* fetch_page 73-110: self.selenium_scraper.fetch_page(url), validation, and the
\* except clause.  The attribute is read again here: None gives an
\* AttributeError, a session that was closed gives no page.  The pool has no
\* return_proxy (HasReturnProxy), so lines 89-91 and 105-107 change nothing.
ScraperFetch(t) ==
    /\ spc[t] = "opened"
    /\ \E page \in AttemptOutcomes :
        LET usable == selenium_scraper # NoneRef /\ selenium_scraper \in openSessions
            outcome == IF usable THEN page ELSE "none"
        IN  /\ willReturn' = [willReturn EXCEPT ![t] =
                                 outcome = "valid" \/ IsLastAttempt(attemptNo[t])]
            /\ rejected' = [rejected EXCEPT ![t] =
                               IF outcome = "change" THEN attemptProxy[t] ELSE NoneRef]
    /\ spc' = [spc EXCEPT ![t] = "fin_check"]
    /\ UNCHANGED <<selenium_scraper, openSessions, attemptNo, providedProxy,
                   attemptProxy, opened, nonScraperVars>>

\* after the finally clause: return, or the next iteration of the loop
AfterFinally(t, pc) ==
    IF willReturn[t] THEN [pc EXCEPT ![t] = "returned"] ELSE [pc EXCEPT ![t] = "top"]

NextAttemptNo(t) ==
    IF willReturn[t] THEN attemptNo ELSE [attemptNo EXCEPT ![t] = @ + 1]

\* fetch_page 116: "if self.selenium_scraper:"
ScraperFinCheck(t) ==
    /\ spc[t] = "fin_check"
    /\ IF selenium_scraper # NoneRef
       THEN /\ spc' = [spc EXCEPT ![t] = "fin_close"]
            /\ UNCHANGED attemptNo
       ELSE /\ spc' = AfterFinally(t, spc)
            /\ attemptNo' = NextAttemptNo(t)
    /\ UNCHANGED <<selenium_scraper, openSessions, providedProxy, attemptProxy, opened,
                   willReturn, rejected, nonScraperVars>>

\* fetch_page 117: "self.selenium_scraper.close()" closes the session the
\* attribute refers to now; if it has become None the AttributeError leaves
\* fetch_page
ScraperFinClose(t) ==
    /\ spc[t] = "fin_close"
    /\ IF selenium_scraper # NoneRef
       THEN /\ openSessions' = openSessions \ {selenium_scraper}
            /\ spc' = [spc EXCEPT ![t] = "fin_clear"]
       ELSE /\ spc' = [spc EXCEPT ![t] = "raised"]
            /\ UNCHANGED openSessions
    /\ UNCHANGED <<selenium_scraper, attemptNo, providedProxy, attemptProxy, opened,
                   willReturn, rejected, nonScraperVars>>

\* fetch_page 118: "self.selenium_scraper = None"
ScraperFinClear(t) ==
    /\ spc[t] = "fin_clear"
    /\ selenium_scraper' = NoneRef
    /\ spc' = AfterFinally(t, spc)
    /\ attemptNo' = NextAttemptNo(t)
    /\ UNCHANGED <<openSessions, providedProxy, attemptProxy, opened, willReturn,
                   rejected, nonScraperVars>>

ScraperNext ==
    \/ \E t \in ScraperThreads : ScraperCall(t)
    \/ \E t \in ScraperThreads : ScraperOpen(t)
    \/ \E t \in ScraperThreads : ScraperFetch(t)
    \/ \E t \in ScraperThreads : ScraperFinCheck(t)
    \/ \E t \in ScraperThreads : ScraperFinClose(t)
    \/ \E t \in ScraperThreads : ScraperFinClear(t)

(***************************************************************************)
(* Organization field extraction: extract_org_info                         *)
(***************************************************************************)
\* bounds of the extraction model
NumExtOrgs == 2
MaxExtRuns == 2

ExtOrgs == 1..NumExtOrgs

\* an empty / NULL office_addr
EmptyAddr == 0
\* the address the table extractor reads from the info table of the page
TableAddr == 1
\* the address text the content extractor takes from a mapped section
SectionAddr == 2

\* extract_org_info main 47-48
ExtractsTable(mode) == mode # "only_content"

ExtractsContent(mode) == mode # "only_table"

\* BaiduBaikeExtractor.process_organization 834-840: office_addr is written
\* only when the value just read is empty
ContentWritesAddr(current) == current = EmptyAddr

\* HTMLExtractor.process_organization 468-471: every non-empty extracted field
\* is written, whatever the column holds
TableWritesAddr(current) == TRUE

ExtractInit ==
    /\ office_addr = [o \in ExtOrgs |-> EmptyAddr]
    /\ pageHasTableAddr = [o \in ExtOrgs |-> FALSE]
    /\ pageHasSectionAddr = [o \in ExtOrgs |-> FALSE]
    /\ xpc = "start"
    /\ xidx = 1
    /\ xmode = "both"
    /\ xupdate = TRUE
    /\ tableMapsAddr = FALSE
    /\ xruns = 0

\* the pages stored in remark by the acquisition stage
LoadPages ==
    /\ xpc = "start"
    /\ pageHasTableAddr' \in [ExtOrgs -> BOOLEAN]
    /\ pageHasSectionAddr' \in [ExtOrgs -> BOOLEAN]
    /\ xpc' = "idle"
    /\ UNCHANGED <<office_addr, xidx, xmode, xupdate, tableMapsAddr, xruns, nonExtractVars>>

\* extract_org_info main 24-57: parse the arguments, load the table mapping
ExtStartRun ==
    /\ xpc = "idle"
    /\ xruns < MaxExtRuns
    /\ xruns' = xruns + 1
    /\ \E mode \in {"both", "only_table", "only_content"}, upd \in BOOLEAN, maps \in BOOLEAN :
        /\ xmode' = mode
        /\ xupdate' = upd
        /\ tableMapsAddr' = maps
        /\ xpc' = IF ExtractsTable(mode) THEN "table" ELSE "content"
    /\ xidx' = 1
    /\ UNCHANGED <<office_addr, pageHasTableAddr, pageHasSectionAddr, nonExtractVars>>

\* HTMLExtractor.process_organization 441-473 for the next organization
TableExtractOrg ==
    /\ xpc = "table"
    /\ xidx \in ExtOrgs
    /\ office_addr' =
          IF xupdate /\ tableMapsAddr /\ pageHasTableAddr[xidx]
             /\ TableWritesAddr(office_addr[xidx])
          THEN [office_addr EXCEPT ![xidx] = TableAddr]
          ELSE office_addr
    /\ xidx' = xidx + 1
    /\ UNCHANGED <<pageHasTableAddr, pageHasSectionAddr, xpc, xmode, xupdate, tableMapsAddr,
                   xruns, nonExtractVars>>

\* extract_org_info main 72-77: the table pass is over
TablePassDone ==
    /\ xpc = "table"
    /\ xidx \notin ExtOrgs
    /\ xpc' = IF ExtractsContent(xmode) THEN "content" ELSE "idle"
    /\ xidx' = 1
    /\ UNCHANGED <<office_addr, pageHasTableAddr, pageHasSectionAddr, xmode, xupdate,
                   tableMapsAddr, xruns, nonExtractVars>>

\* BaiduBaikeExtractor.process_organization 800-843 for the next organization;
\* _get_current_field_value 845-862 returns "" when its SELECT fails
ContentExtractOrg ==
    /\ xpc = "content"
    /\ xidx \in ExtOrgs
    /\ \E readok \in BOOLEAN :
        LET current == IF readok THEN office_addr[xidx] ELSE EmptyAddr
        IN  office_addr' =
              IF xupdate /\ pageHasSectionAddr[xidx] /\ ContentWritesAddr(current)
              THEN [office_addr EXCEPT ![xidx] = SectionAddr]
              ELSE office_addr
    /\ xidx' = xidx + 1
    /\ UNCHANGED <<pageHasTableAddr, pageHasSectionAddr, xpc, xmode, xupdate, tableMapsAddr,
                   xruns, nonExtractVars>>

\* extract_org_info main 100-122: the content pass is over, the command ends
ContentPassDone ==
    /\ xpc = "content"
    /\ xidx \notin ExtOrgs
    /\ xpc' = "idle"
    /\ xidx' = 1
    /\ UNCHANGED <<office_addr, pageHasTableAddr, pageHasSectionAddr, xmode, xupdate,
                   tableMapsAddr, xruns, nonExtractVars>>

ExtractNext ==
    \/ LoadPages
    \/ ExtStartRun
    \/ TableExtractOrg
    \/ TablePassDone
    \/ ContentExtractOrg
    \/ ContentPassDone

(***************************************************************************)
(* Leader name filter: LeaderExtractor.is_valid_leader_name                *)
(***************************************************************************)
\* bound of the name model: the longest candidate name
MaxNameLen == 5

\* is_valid_leader_name 63: len(name) > 4
MaxPlainNameLen == 4

\* names are strings, written as sequences of characters: an ordinary
\* character, the two dot characters, and the characters of a blocklist term
NameChars == {"x", "bullet", "middot", "k", "w"}

\* is_valid_leader_name 64: the bullet U+2022 and the middle dot U+00B7
DotChars == {"bullet", "middot"}

\* LeaderExtractor.__init__ 15-32: non_person_keywords (one two-character term
\* stands for the list)
non_person_keywords == {<<"k", "w">>}

CandidateNames == SeqsUpTo(NameChars, MaxNameLen)

\* Python's "keyword in name" for strings
Contains(name, keyword) ==
    \E i \in 1..(Len(name) - Len(keyword) + 1) :
        SubSeq(name, i, i + Len(keyword) - 1) = keyword

HasDot(name) == \E i \in 1..Len(name) : name[i] \in DotChars

HasKeyword(name) == \E k \in non_person_keywords : Contains(name, k)

LengthOutOfRangeWide(n) == n = 0 \/ n > MaxPlainNameLen + 1

\* is_valid_leader_name 63: len(name) == 0 or len(name) > 4
LengthOutOfRange(n) == n = 0 \/ n > MaxPlainNameLen

\* is_valid_leader_name 52-73
is_valid_leader_name(name) ==
    IF name = <<>> THEN FALSE
    ELSE IF LengthOutOfRange(Len(name)) THEN HasDot(name)
    ELSE ~HasKeyword(name)

NameInit ==
    /\ candidate = <<>>
    /\ accepted = FALSE
    /\ namepc = "ready"

\* extract_leaders 191: one call of is_valid_leader_name
CheckName ==
    /\ namepc = "ready"
    /\ \E name \in CandidateNames :
        /\ candidate' = name
        /\ accepted' = is_valid_leader_name(name)
    /\ namepc' = "checked"
    /\ UNCHANGED nonNameVars

\* extract_leaders 171: the loop goes to the next link; the name and the
\* verdict of the previous link are gone
NextCandidate ==
    /\ namepc = "checked"
    /\ namepc' = "ready"
    /\ candidate' = <<>>
    /\ accepted' = FALSE
    /\ UNCHANGED nonNameVars

NameNext ==
    \/ CheckName
    \/ NextCandidate

(***************************************************************************)
(* only_fetch_producer: one producer working through a chunk of tasks      *)
(***************************************************************************)
\* bound of the chunk model: the number of tasks split_tasks gave the producer
ChunkSize == 3

ChunkTasks == 1..ChunkSize

\* only_fetch_producer 699: task_queue = list(tasks)
InitialQueue == [i \in 1..ChunkSize |-> i]

ChunkInit ==
    /\ task_queue = InitialQueue
    /\ retry_counts = [t \in ChunkTasks |-> 0]
    /\ fetch_bound = FALSE
    /\ chunkpc = "run"
    /\ tries = [t \in ChunkTasks |-> 0]
    /\ pendingAtFailure = [t \in ChunkTasks |-> {}]
    /\ stillAhead = [t \in ChunkTasks |-> {}]

\* only_fetch_producer 705-848: one pass of the while loop.  The task at the
\* head is popped and fetched (load_tasks 244 hands the producers uncached
\* tasks only); a failed fetch or an exception counts a retry and, below
\* max_retries, appends the task to the list; the finally block may raise
\* out of the loop.  The stop event is set only after the producers have
\* been joined, so it is clear while the loop runs.
ChunkIterate ==
    /\ chunkpc = "run"
    /\ task_queue # <<>>
    /\ LET t == Head(task_queue)
           rest == Tail(task_queue)
       IN  \E outcome \in FetchOutcomes :
           LET retryAfter == IF outcome = "ok" THEN retry_counts[t]
                             ELSE retry_counts[t] + 1
               requeue == outcome # "ok" /\ retryAfter < MaxRetries
           IN  /\ tries' = [tries EXCEPT ![t] = @ + 1]
               /\ retry_counts' = [retry_counts EXCEPT ![t] = retryAfter]
               /\ fetch_bound' = (fetch_bound \/ outcome # "exc")
               /\ task_queue' = IF requeue THEN Requeued(rest, t) ELSE rest
               /\ pendingAtFailure' =
                      IF requeue THEN [pendingAtFailure EXCEPT ![t] = Range(rest)]
                      ELSE pendingAtFailure
               /\ stillAhead' =
                      [u \in ChunkTasks |->
                          IF u = t
                          THEN (IF requeue THEN Range(rest) ELSE stillAhead[t])
                          ELSE stillAhead[u] \ {t}]
               /\ chunkpc' = IF outcome = "exc" /\ FinallyRaises(retryAfter, fetch_bound)
                             THEN "dead" ELSE "run"
    /\ UNCHANGED nonChunkVars

\* only_fetch_producer 705: the loop ends on an empty list
ChunkExit ==
    /\ chunkpc = "run"
    /\ task_queue = <<>>
    /\ chunkpc' = "done"
    /\ UNCHANGED <<task_queue, retry_counts, fetch_bound, tries, pendingAtFailure,
                   stillAhead, nonChunkVars>>

ChunkNext ==
    \/ ChunkIterate
    \/ ChunkExit

(***************************************************************************)
(* --stage full: process_fetch_stage, then process_parse_stage             *)
(***************************************************************************)
\* the tasks of a set as load_tasks_from_csv lists them, in row order
RECURSIVE RowOrder(_)
RowOrder(S) ==
    IF S = {} THEN <<>>
    ELSE LET t == CHOOSE x \in S : \A y \in S : x <= y
         IN  <<t>> \o RowOrder(S \ {t})

\* split_tasks 218-220: the entry at 0-based position i goes to chunk i % num_producers
ChunkOf(list, p) ==
    LET idx == {i \in 1..Len(list) : ((i - 1) % NumProducers) + 1 = p}
    IN  [k \in 1..Cardinality(idx) |->
            list[CHOOSE i \in idx : Cardinality({j \in idx : j < i}) = k - 1]]

\* process_fetch_stage 239-247, 292: the stage returns early without tasks to
\* fetch; otherwise it sets stop_event, and nothing clears the event afterwards
StopLeftSet(ran) == ran

\* DataProcessor.__init__ 81: the event is created clear
FullInit ==
    /\ mainFull = "fetch"
    /\ stop_event = FALSE
    /\ toParse = {}
    /\ pchunk = [p \in Producers |-> <<>>]
    /\ pstate = [p \in Producers |-> "new"]
    /\ parseq = <<>>
    /\ punfinished = 0
    /\ pcstate = [c \in Consumers |-> "new"]
    /\ parsedConsumed = {}

\* main 86-89, process_fetch_stage 234-311 as a whole: of the rows without a
\* cached page some are fetched; the rows with a page are the parse stage's tasks
FullFetchStage ==
    /\ mainFull = "fetch"
    /\ \E uncached \in SUBSET Tasks :
       \E fetched \in SUBSET uncached :
          /\ toParse' = (Tasks \ uncached) \cup fetched
          /\ stop_event' = (stop_event \/ StopLeftSet(uncached # {}))
    /\ mainFull' = "parse"
    /\ UNCHANGED <<pchunk, pstate, parseq, punfinished, pcstate, parsedConsumed,
                   nonFullVars>>

\* main 91-94, process_parse_stage 619-651: load the cached unparsed tasks, return
\* if there are none, else start the consumers and the producers
ParseStageStart ==
    /\ mainFull = "parse"
    /\ IF toParse = {}
       THEN /\ mainFull' = "returned"
            /\ UNCHANGED <<pchunk, pstate, pcstate>>
       ELSE /\ mainFull' = "joinp"
            /\ pchunk' = [p \in Producers |-> ChunkOf(RowOrder(toParse), p)]
            /\ pstate' = [p \in Producers |-> "run"]
            /\ pcstate' = [c \in Consumers |-> "loop"]
    /\ UNCHANGED <<stop_event, toParse, parseq, punfinished, parsedConsumed, nonFullVars>>

\* only_parse_producer 420-503: one pass of "for task in tasks": break on a set
\* stop event, else parse the page and put a result (success or failure)
ParseProducerStep(p) ==
    /\ pstate[p] = "run"
    /\ pchunk[p] # <<>>
    /\ IF stop_event
       THEN /\ pstate' = [pstate EXCEPT ![p] = "done"]
            /\ UNCHANGED <<pchunk, parseq, punfinished>>
       ELSE /\ pchunk' = [pchunk EXCEPT ![p] = Tail(@)]
            /\ parseq' = Append(parseq, Head(pchunk[p]))
            /\ punfinished' = punfinished + 1
            /\ UNCHANGED pstate
    /\ UNCHANGED <<mainFull, stop_event, toParse, pcstate, parsedConsumed, nonFullVars>>

\* only_parse_producer 420, 505: the for loop is exhausted
ParseProducerEnd(p) ==
    /\ pstate[p] = "run"
    /\ pchunk[p] = <<>>
    /\ pstate' = [pstate EXCEPT ![p] = "done"]
    /\ UNCHANGED <<mainFull, stop_event, toParse, pchunk, parseq, punfinished, pcstate,
                   parsedConsumed, nonFullVars>>

\* process_parse_stage 654-662: join the producers, then set the stop event
ParseSetStop ==
    /\ mainFull = "joinp"
    /\ \A p \in Producers : pstate[p] = "done"
    /\ stop_event' = TRUE
    /\ mainFull' = "joinq"
    /\ UNCHANGED <<toParse, pchunk, pstate, parseq, punfinished, pcstate,
                   parsedConsumed, nonFullVars>>

\* process_parse_stage 664-670: result_queue.join(), the timed consumer joins,
\* and the stage returns
ParseStageReturn ==
    /\ mainFull = "joinq"
    /\ punfinished = 0
    /\ mainFull' = "returned"
    /\ UNCHANGED <<stop_event, toParse, pchunk, pstate, parseq, punfinished, pcstate,
                   parsedConsumed, nonFullVars>>

\* parse_consumer 521-596: a result is taken and processed, then task_done
ParseConsume(c) ==
    /\ pcstate[c] = "loop"
    /\ parseq # <<>>
    /\ parsedConsumed' = parsedConsumed \cup {Head(parseq)}
    /\ parseq' = Tail(parseq)
    /\ punfinished' = punfinished - 1
    /\ UNCHANGED <<mainFull, stop_event, toParse, pchunk, pstate, pcstate, nonFullVars>>

\* parse_consumer 521, 526-530: on an empty queue with the stop event set the
\* consumer leaves its loop
ParseConsumerExit(c) ==
    /\ pcstate[c] = "loop"
    /\ parseq = <<>>
    /\ stop_event
    /\ pcstate' = [pcstate EXCEPT ![c] = "exited"]
    /\ UNCHANGED <<mainFull, stop_event, toParse, pchunk, pstate, parseq, punfinished,
                   parsedConsumed, nonFullVars>>

FullNext ==
    \/ FullFetchStage
    \/ ParseStageStart
    \/ \E p \in Producers : ParseProducerStep(p)
    \/ \E p \in Producers : ParseProducerEnd(p)
    \/ ParseSetStop
    \/ ParseStageReturn
    \/ \E c \in Consumers : ParseConsume(c)
    \/ \E c \in Consumers : ParseConsumerExit(c)

(***************************************************************************)
(* LLM biography stage: the shared rate limiter and the requests           *)
(***************************************************************************)
\* bounds of the pacing model; RequestGap is 1 / request_rate in ticks
NumRateWorkers == 2
MaxTime == 6
RequestGap == 2

RateWorkers == 1..NumRateWorkers

\* extract_biographical_events 466-474: after the backoff sleep the while loop
\* goes back to client.chat.completions.create (420); _wait_for_rate_limit is
\* called once, before the loop (359)
RetryPassesLimiter == FALSE

\* _wait_for_rate_limit 321-324: under request_lock the thread sleeps until
\* 1 / request_rate has passed since last_request_time
LimiterLetsThrough(t, last) == t - last >= RequestGap

\* BiographicalDataProcessor.__init__ 228-231
RateInit ==
    /\ now = 0
    /\ last_request_time = 0
    /\ rpc = [w \in RateWorkers |-> "idle"]
    /\ rretry = [w \in RateWorkers |-> 0]
    /\ wakeAt = [w \in RateWorkers |-> 0]
    /\ sentCount = 0
    /\ lastSent = 0

\* time passes; a thread that has left the limiter, or whose backoff has ended,
\* sends its request before the clock moves on
RateTick ==
    /\ now < MaxTime
    /\ \A w \in RateWorkers :
          /\ rpc[w] # "send"
          /\ rpc[w] = "backoff" => now < wakeAt[w]
    /\ now' = now + 1
    /\ UNCHANGED <<last_request_time, rpc, rretry, wakeAt, sentCount, lastSent,
                   nonRateVars>>

\* extract_biographical_events 354-359: a worker enters a call and goes to the limiter
RateBeginCall(w) ==
    /\ rpc[w] = "idle"
    /\ rpc' = [rpc EXCEPT ![w] = "limiter"]
    /\ rretry' = [rretry EXCEPT ![w] = 0]
    /\ UNCHANGED <<now, last_request_time, wakeAt, sentCount, lastSent, nonRateVars>>

\* _wait_for_rate_limit 319-342: the pass through the limiter, one thread at a
\* time; it ends by recording last_request_time
LimiterPass(w) ==
    /\ rpc[w] = "limiter"
    /\ LimiterLetsThrough(now, last_request_time)
    /\ last_request_time' = now
    /\ rpc' = [rpc EXCEPT ![w] = "send"]
    /\ UNCHANGED <<now, rretry, wakeAt, sentCount, lastSent, nonRateVars>>

\* extract_biographical_events 417-474: one API request.  It is answered (or
\* fails for good) and the call ends, or it is rate limited: the third such
\* failure ends the call, an earlier one starts a backoff sleep of
\* 2^retry_count + random(0,1) seconds, which is longer than 1 / request_rate
SendRequest(w) ==
    /\ rpc[w] = "send"
    /\ sentCount' = sentCount + 1
    /\ lastSent' = now
    /\ \E limited \in BOOLEAN :
          IF ~limited \/ rretry[w] + 1 >= ApiMaxRetries
          THEN /\ rpc' = [rpc EXCEPT ![w] = "idle"]
               /\ UNCHANGED <<rretry, wakeAt>>
          ELSE /\ rretry' = [rretry EXCEPT ![w] = @ + 1]
               /\ rpc' = [rpc EXCEPT ![w] = "backoff"]
               /\ \E wake \in (now + RequestGap)..(IF MaxTime > now + RequestGap
                                                    THEN MaxTime ELSE now + RequestGap) :
                     wakeAt' = [wakeAt EXCEPT ![w] = wake]
    /\ UNCHANGED <<now, last_request_time, nonRateVars>>

\* extract_biographical_events 471-474, 414: the backoff sleep is over and the
\* loop makes the next attempt
BackoffOver(w) ==
    /\ rpc[w] = "backoff"
    /\ now >= wakeAt[w]
    /\ rpc' = [rpc EXCEPT ![w] = IF RetryPassesLimiter THEN "limiter" ELSE "send"]
    /\ UNCHANGED <<now, last_request_time, rretry, wakeAt, sentCount, lastSent,
                   nonRateVars>>

RateNext ==
    \/ RateTick
    \/ \E w \in RateWorkers : RateBeginCall(w)
    \/ \E w \in RateWorkers : LimiterPass(w)
    \/ \E w \in RateWorkers : SendRequest(w)
    \/ \E w \in RateWorkers : BackoffOver(w)

(***************************************************************************)
(* Leader field extraction: LeaderInfoExtractor.process_leader             *)
(***************************************************************************)
\* bound of the merge model: the number of columns looked at
NumFields == 2

LeaderFields == 1..NumFields

\* the texts: nothing, what the row held before, and what each extractor found
NoText == ""
OldText == "old"
ContentText == "content"
TableText == "table"

\* a dict with no key
EmptyDict == [f \in {} |-> NoText]

\* dict.update
DictUpdate(d, u) ==
    [k \in (DOMAIN d) \cup (DOMAIN u) |-> IF k \in DOMAIN u THEN u[k] ELSE d[k]]

\* HTMLExtractor.extract_info_from_html 347-351: every field of the mapping
\* starts as "", and keeps it when no rule matches
TableResult(mapped, found) ==
    [f \in mapped |-> IF f \in found THEN TableText ELSE NoText]

\* update_leader_info 93-96: only a non-empty value enters the SET clause
Written(value) == value # NoText

MergeInit ==
    /\ mpc = "start"
    /\ content_data = EmptyDict
    /\ table_result = EmptyDict
    /\ field_data = EmptyDict
    /\ leaderRow = [f \in LeaderFields |-> NoText]

\* process_leaders 224-226, process_leader 129-176: a leader row is read and both
\* extractors run on its page.  The schema files decide which fields each
\* extractor maps; the page decides which of them get a text.
ExtractLeader ==
    /\ mpc = "start"
    /\ \E sectionFields \in SUBSET LeaderFields,
          mapped \in SUBSET LeaderFields,
          old \in SUBSET LeaderFields :
       \E found \in SUBSET mapped :
          /\ content_data' = [f \in sectionFields |-> ContentText]
          /\ table_result' = TableResult(mapped, found)
          /\ leaderRow' = [f \in LeaderFields |-> IF f \in old THEN OldText ELSE NoText]
    /\ mpc' = "extracted"
    /\ UNCHANGED <<field_data, nonMergeVars>>

\* process_leader 178-179: field_data.update(table_result)
MergeResults ==
    /\ mpc = "extracted"
    /\ field_data' = DictUpdate(content_data, table_result)
    /\ mpc' = "merged"
    /\ UNCHANGED <<content_data, table_result, leaderRow, nonMergeVars>>

\* process_leader 181-183, update_leader_info 89-116: UPDATE with the non-empty values
UpdateLeaderInfo ==
    /\ mpc = "merged"
    /\ leaderRow' = [f \in LeaderFields |->
                        IF f \in DOMAIN field_data /\ Written(field_data[f])
                        THEN field_data[f] ELSE leaderRow[f]]
    /\ mpc' = "written"
    /\ UNCHANGED <<content_data, table_result, field_data, nonMergeVars>>

\* process_leaders 224: the loop goes on to the next leader
NextLeader ==
    /\ mpc = "written"
    /\ mpc' = "start"
    /\ content_data' = EmptyDict
    /\ table_result' = EmptyDict
    /\ field_data' = EmptyDict
    /\ leaderRow' = [f \in LeaderFields |-> NoText]
    /\ UNCHANGED nonMergeVars

MergeNext ==
    \/ ExtractLeader
    \/ MergeResults
    \/ UpdateLeaderInfo
    \/ NextLeader

(***************************************************************************)
(* HTML cache: save_html_content and HTMLCacheManager.is_cached            *)
(***************************************************************************)
\* bound of the cache model: the longest person name
MaxPersonNameLen == 3

\* the characters of a name by class: a letter or digit (of any script), the
\* underscore, the dash, the full stop, and any other character (a middle dot,
\* a space, a bracket)
PersonChars == {"a", "_", "-", ".", "other"}

PersonNames == SeqsUpTo(PersonChars, MaxPersonNameLen) \ {<<>>}

\* save_html_content 138: c.isalnum() or c in '_-'
KeptBySave(c) == c \in {"a", "_", "-"}

\* save_html_content 138: the characters that fail the test are dropped
SavedName(name) == SelectSeq(name, KeptBySave)

\* safe_filename 33: the pattern [^\w\-\.] matches what is to be replaced
KeptBySafeFilename(c) == c \in {"a", "_", "-", "."}

\* safe_filename 22-39: a character outside the pattern becomes "_"; an empty
\* result or "." becomes 'unnamed_file'
safe_filename(name) ==
    LET s == [i \in 1..Len(name) |-> IF KeptBySafeFilename(name[i]) THEN name[i] ELSE "_"]
    IN  IF s = <<>> \/ s = <<".">> THEN <<"unnamed_file">> ELSE s

\* "<name>_<person_id>.html" for the one person_id of the model
HtmlFile(safe_name) == <<safe_name, "id", "html">>

\* HTMLCacheManager.is_cached 52-70, on a refreshed index
is_cached(name, index) == HtmlFile(safe_filename(name)) \in index

CacheInit ==
    /\ cachepc = "start"
    /\ person_name = <<>>
    /\ cache_files = {}
    /\ is_cached_flag = FALSE

\* fetch_with_metadata 203-205, save_html_content 123-146: the fetched page of a
\* person with a non-empty name is written to the cache directory
SaveHtml ==
    /\ cachepc = "start"
    /\ \E name \in PersonNames :
          /\ person_name' = name
          /\ cache_files' = {HtmlFile(SavedName(name))}
    /\ cachepc' = "saved"
    /\ UNCHANGED <<is_cached_flag, nonCacheVars>>

\* load_tasks_from_csv 154-176: refresh the index, then ask is_cached for the row
LoadTasks ==
    /\ cachepc = "saved"
    /\ is_cached_flag' = is_cached(person_name, cache_files)
    /\ cachepc' = "loaded"
    /\ UNCHANGED <<person_name, cache_files, nonCacheVars>>

\* load_tasks_from_csv 159: the next row, with a cache directory of its own
NextPerson ==
    /\ cachepc = "loaded"
    /\ cachepc' = "start"
    /\ person_name' = <<>>
    /\ cache_files' = {}
    /\ is_cached_flag' = FALSE
    /\ UNCHANGED nonCacheVars

CacheNext ==
    \/ SaveHtml
    \/ LoadTasks
    \/ NextPerson

(***************************************************************************)
(* Graph export: Neo4jImporter.create_colleague_relationships              *)
(***************************************************************************)
\* bounds of the graph model
NumPeople == 2
NumGraphOrgs == 2
MaxMonth == 2

People == 1..NumPeople
GraphOrgs == 1..NumGraphOrgs

\* a WORKED_AT period with all four date fields set, as start and end in
\* months (year * 12 + month); NoStint: no such edge
Stints == {s \in (1..MaxMonth) \X (1..MaxMonth) : s[1] <= s[2]}
NoStint == <<>>

\* create_colleague_relationships 406-407
StintsOverlap(s1, s2) == s1[1] <= s2[2] /\ s2[1] <= s1[2]

\* 380, 393: NOT EXISTS((p1)-[:COLLEAGUES]-(p2)), evaluated on the graph edges
HasColleagueEdge(edges, a, b) ==
    \E e \in edges : (e.a = a /\ e.b = b) \/ (e.a = b /\ e.b = a)

\* 376-380: the rows the first query matches.  A query's MATCH ... WHERE is
\* evaluated on the graph as it is before the query's own CREATE
CurrentRows(edges) ==
    {r \in People \X People \X GraphOrgs :
        /\ r[1] < r[2]
        /\ <<r[1], r[3]>> \in works_for
        /\ <<r[2], r[3]>> \in works_for
        /\ ~HasColleagueEdge(edges, r[1], r[2])}

\* 387-407: the rows the second query matches
HistoricalRows(edges) ==
    {r \in People \X People \X GraphOrgs :
        /\ r[1] < r[2]
        /\ worked_at[r[1]][r[3]] # NoStint
        /\ worked_at[r[2]][r[3]] # NoStint
        /\ StintsOverlap(worked_at[r[1]][r[3]], worked_at[r[2]][r[3]])
        /\ ~HasColleagueEdge(edges, r[1], r[2])}

\* 382-385, 446-449: CREATE makes one edge for every matched row
CreatedEdges(rows, period) ==
    {[a |-> r[1], b |-> r[2], workplace |-> r[3], overlapPeriod |-> period] : r \in rows}

GraphInit ==
    /\ gpc = "start"
    /\ works_for = {}
    /\ worked_at = [p \in People |-> [o \in GraphOrgs |-> NoStint]]
    /\ colleagues = {}

\* import_data 480-507: the Person and Organization nodes and their WORKS_FOR and
\* WORKED_AT edges are in the graph before the colleague queries run
ImportGraph ==
    /\ gpc = "start"
    /\ \E wf \in SUBSET (People \X GraphOrgs),
          wa \in [People -> [GraphOrgs -> Stints \cup {NoStint}]] :
          /\ works_for' = wf
          /\ worked_at' = wa
    /\ gpc' = "imported"
    /\ UNCHANGED <<colleagues, nonGraphVars>>

\* create_colleague_relationships 456-460: session.run(current_colleagues_cypher)
CurrentPass ==
    /\ gpc = "imported"
    /\ colleagues' = colleagues \cup CreatedEdges(CurrentRows(colleagues), "till now")
    /\ gpc' = "current"
    /\ UNCHANGED <<works_for, worked_at, nonGraphVars>>

\* create_colleague_relationships 462-466: session.run(historical_colleagues_cypher)
HistoricalPass ==
    /\ gpc = "current"
    /\ colleagues' = colleagues \cup CreatedEdges(HistoricalRows(colleagues), "period")
    /\ gpc' = "done"
    /\ UNCHANGED <<works_for, worked_at, nonGraphVars>>

GraphNext ==
    \/ ImportGraph
    \/ CurrentPass
    \/ HistoricalPass

(***************************************************************************)
(* Graph export: Neo4jImporter.create_schoolmates_relationships            *)
(***************************************************************************)
\* bound of the schoolmates model: the years a period can start or end in
NumYears == 2

\* a property that is not set (Cypher null)
NullProp == 0

StudyYears == 1..NumYears
StudyMonths == {1, 6, 12}

\* a STUDIED_AT edge: years and months may each be missing
StudyEdges ==
    [startYear : StudyYears \cup {NullProp}, startMonth : StudyMonths \cup {NullProp},
     endYear : StudyYears \cup {NullProp}, endMonth : StudyMonths \cup {NullProp}]

\* Cypher COALESCE
Coalesce(v, default) == IF v = NullProp THEN default ELSE v

StartMonths(r) == r.startYear * 12 + Coalesce(r.startMonth, 1)

EndMonths(r) == r.endYear * 12 + Coalesce(r.endMonth, 12)

\* create_schoolmates_relationships 267-273
AtTheSameTime(a, b) ==
    IF /\ a.startYear # NullProp /\ a.endYear # NullProp
       /\ b.startYear # NullProp /\ b.endYear # NullProp
    THEN StartMonths(a) <= EndMonths(b) /\ StartMonths(b) <= EndMonths(a)
    ELSE FALSE

\* 277-280
OverlapStartYear(a, b) ==
    IF a.startYear # NullProp /\ b.startYear # NullProp
    THEN (IF a.startYear > b.startYear THEN a.startYear ELSE b.startYear)
    ELSE NullProp

\* 282-291: a CASE without a matching branch gives null
OverlapStartMonth(a, b) ==
    IF a.startYear = NullProp \/ b.startYear = NullProp THEN NullProp
    ELSE IF /\ a.startYear = b.startYear
            /\ a.startMonth # NullProp /\ b.startMonth # NullProp
         THEN (IF a.startMonth > b.startMonth THEN a.startMonth ELSE b.startMonth)
    ELSE IF a.startYear > b.startYear THEN Coalesce(a.startMonth, 1)
    ELSE IF b.startYear > a.startYear THEN Coalesce(b.startMonth, 1)
    ELSE NullProp

\* 294-297
OverlapEndYear(a, b) ==
    IF a.endYear # NullProp /\ b.endYear # NullProp
    THEN (IF a.endYear < b.endYear THEN a.endYear ELSE b.endYear)
    ELSE NullProp

\* 299-308
OverlapEndMonth(a, b) ==
    IF a.endYear = NullProp \/ b.endYear = NullProp THEN NullProp
    ELSE IF /\ a.endYear = b.endYear
            /\ a.endMonth # NullProp /\ b.endMonth # NullProp
         THEN (IF a.endMonth < b.endMonth THEN a.endMonth ELSE b.endMonth)
    ELSE IF a.endYear < b.endYear THEN Coalesce(a.endMonth, 12)
    ELSE IF b.endYear < a.endYear THEN Coalesce(b.endMonth, 12)
    ELSE NullProp

\* an edge without the overlapPeriod property
NoPeriod == <<>>

\* 318, 320: the month as two digits
PaddedMonth(m) == IF m < 10 THEN <<0, m>> ELSE <<m \div 10, m % 10>>

\* 315-321: YYYY.MM-YYYY.MM; a null operand makes the whole string null
FormattedPeriod(same, sy, sm, ey, em) ==
    IF same /\ sy # NullProp /\ ey # NullProp /\ sm # NullProp /\ em # NullProp
    THEN <<sy, ".", PaddedMonth(sm), "-", ey, ".", PaddedMonth(em)>>
    ELSE NoPeriod

SchoolInit ==
    /\ schoolpc = "start"
    /\ r1 = [startYear |-> NullProp, startMonth |-> NullProp,
             endYear |-> NullProp, endMonth |-> NullProp]
    /\ r2 = [startYear |-> NullProp, startMonth |-> NullProp,
             endYear |-> NullProp, endMonth |-> NullProp]
    /\ atTheSameTime = FALSE
    /\ overlapPeriod = NoPeriod

\* create_schoolmates_relationships 259-353: one matched row of two people at a
\* school, with no such edge yet; the edge is created with the computed
\* properties (overlapPeriod only when it is not null)
CreateSchoolmates ==
    /\ schoolpc = "start"
    /\ \E a \in StudyEdges, b \in StudyEdges :
          /\ r1' = a
          /\ r2' = b
          /\ atTheSameTime' = AtTheSameTime(a, b)
          /\ overlapPeriod' = FormattedPeriod(AtTheSameTime(a, b),
                                              OverlapStartYear(a, b), OverlapStartMonth(a, b),
                                              OverlapEndYear(a, b), OverlapEndMonth(a, b))
    /\ schoolpc' = "created"
    /\ UNCHANGED nonSchoolVars

\* 259: the next matched row
NextSchoolPair ==
    /\ schoolpc = "created"
    /\ schoolpc' = "start"
    /\ r1' = [startYear |-> NullProp, startMonth |-> NullProp,
              endYear |-> NullProp, endMonth |-> NullProp]
    /\ r2' = r1'
    /\ atTheSameTime' = FALSE
    /\ overlapPeriod' = NoPeriod
    /\ UNCHANGED nonSchoolVars

SchoolNext ==
    \/ CreateSchoolmates
    \/ NextSchoolPair

(***************************************************************************)
(* Specifications                                                          *)
(***************************************************************************)
AllInit == PoolInit /\ FetchInit /\ CareerInit /\ CostInit /\ LeaderInit /\ OrgInit /\ AcqInit /\ ScraperInit /\ ExtractInit /\ NameInit
           /\ ChunkInit /\ FullInit /\ RateInit /\ MergeInit /\ CacheInit /\ GraphInit /\ SchoolInit

SpecPool == AllInit /\ [][PoolNext]_vars

SpecFetch == AllInit /\ [][FetchNext]_vars

SpecFetchFair == AllInit /\ [][FetchNext]_vars /\ FetchFairness

SpecCareer == AllInit /\ [][CareerNext]_vars

SpecCost == AllInit /\ [][CostNext]_vars

SpecLeader == AllInit /\ [][LeaderNext]_vars

SpecOrg == AllInit /\ [][OrgNext]_vars

SpecAcq == AllInit /\ [][AcqNext]_vars

SpecScraper == AllInit /\ [][ScraperNext]_vars

SpecExtract == AllInit /\ [][ExtractNext]_vars

SpecName == AllInit /\ [][NameNext]_vars

SpecChunk == AllInit /\ [][ChunkNext]_vars

SpecFull == AllInit /\ [][FullNext]_vars

SpecRate == AllInit /\ [][RateNext]_vars

SpecMerge == AllInit /\ [][MergeNext]_vars

SpecCache == AllInit /\ [][CacheNext]_vars

SpecGraph == AllInit /\ [][GraphNext]_vars

SpecSchool == AllInit /\ [][SchoolNext]_vars

(***************************************************************************)
(* Claims                                                                  *)
(***************************************************************************)
Holding(t) == holdKind[t] # "none"

\* C1 (as stated): a proxy handed out by get() is removed from the pool and no
\* proxy value is held by two threads at the same time.
C1_NoValueHeldTwice ==
    /\ \A t \in Threads :
        Holding(t) => held[t].id \notin {proxies[i].id : i \in 1..Len(proxies)}
    /\ \A t, u \in Threads :
        (t # u /\ Holding(t) /\ Holding(u)) => ProxyStr(held[t]) # ProxyStr(held[u])

\* C1 (amended): every get() removes the proxy it hands out, so right after the
\* call no pool entry carries that value, and no proxy object is ever held by two
\* threads or held while still in the pool; only a later refresh that delivers
\* the same value again can put an equal value back.
C1_HandedOutIsRemoved ==
    [][ /\ \A t \in Threads :
            (~Holding(t) /\ Holding(t)') => ProxyStr(held'[t]) \notin Vals(proxies')
        /\ \A t, u \in Threads :
            (t # u /\ Holding(t)' /\ Holding(u)') => held'[t].id # held'[u].id
        /\ \A t \in Threads :
            Holding(t)' => held'[t].id \notin {proxies'[i].id : i \in 1..Len(proxies')}
      ]_vars

\* C1 witness: two threads hold proxies handed out by get(), of equal value
\* (a refresh delivered the value again between the two calls), as two objects
C1_Witness ==
    \E t, u \in Threads :
        /\ t # u /\ Holding(t) /\ Holding(u)
        /\ ProxyStr(held[t]) = ProxyStr(held[u])
        /\ held[t].id # held[u].id

\* C2 (as stated): a value returned marked failed never shows up in the pool again
C2_FailedNeverAvailable ==
    \A v \in markedFailed : v \notin Vals(proxies)

AllProducersEnded == \A p \in Producers : ProducerEnded(p)

ResultsFor(t) == {i \in 1..Len(putLog) : putLog[i].task = t}

\* C3 (as stated): every task is fetched at most MaxRetries times and ends with
\* exactly one result on the result queue, a success result if an attempt
\* succeeded and a failure result otherwise.
C3_OneResultPerTask ==
    AllProducersEnded =>
        \A t \in Tasks :
            /\ attempts[t] <= MaxRetries
            /\ Cardinality(ResultsFor(t)) = 1
            /\ \A i \in ResultsFor(t) : putLog[i].success = (t \in savedFiles)

\* C4: the stop event is set only after every producer thread has ended, and the
\* stage returns only after every result put on the queue has been taken and
\* processed (nothing left in the queue or in a consumer's hands).
C4_StopAfterProducersReturnAfterDrain ==
    /\ stopEvent => AllProducersEnded
    /\ mainpc = "returned" =>
        /\ resultq = <<>>
        /\ \A c \in Consumers : cpc[c] # "proc"
        /\ consumed = Range(putLog)

\* C4 witness: the stage has returned after results were produced and consumed
C4_Witness ==
    /\ mainpc = "returned"
    /\ Len(putLog) >= 2
    /\ consumed = Range(putLog)

\* C5: once the producers have ended and the stop event is set, every consumer
\* thread eventually ends and process_fetch_stage returns.
C5_StageTerminates ==
    stopEvent ~> (mainpc = "returned" /\ \A c \in Consumers : cpc[c] = "exited")

\* C5 witness: stop was set while results were still queued, and the stage has
\* returned with every consumer ended
C5_Witness ==
    /\ stopEvent
    /\ mainpc = "returned"
    /\ \A c \in Consumers : cpc[c] = "exited"
    /\ consumed # {}

\* C6 (as stated): an exception raised while one task is processed never stops
\* the producer's batch: when the producers have ended no task is left
\* unprocessed in a producer's queue and every task has its result.
C6_BatchSurvivesException ==
    AllProducersEnded =>
        /\ \A p \in Producers : taskq[p] = <<>>
        /\ \A t \in Tasks : ResultsFor(t) # {}

\* C7 (as stated): once a leader's career_history_structured is non-empty it is
\* never overwritten by the LLM stage, also when two runs process the same
\* leader concurrently.
C7_StructuredNeverOverwritten ==
    [][\A l \in Leaders :
          structured[l] # EmptyColumn => structured'[l] = structured[l]]_vars

RequestSentBy(w) == requests'[w] = requests[w] + 1

\* C8 (as stated): after limit_reached has been set no worker thread sends a
\* further API request.
C8_NoRequestAfterLimit ==
    [][limit_reached => \A w \in Workers : ~RequestSentBy(w)]_vars

\* C8 (amended): an extraction call that begins after limit_reached has been set
\* returns the empty result without sending a request; a call that passed the
\* entry test before the flag was set still sends its request and its retries.
C8_CallsBegunAfterLimitSendNothing ==
    [][\A w \in Workers :
          /\ RequestSentBy(w) => ~enteredAfterLimit[w]
          /\ (enteredAfterLimit'[w] /\ callsMade' = callsMade + 1) => epc'[w] = "idle"
      ]_vars

\* C8 witness: the flag is set, one call begun after it has returned without a
\* request, and another worker is still inside a call begun before it
C8_Witness ==
    \E w, v \in Workers :
        /\ limit_reached
        /\ enteredAfterLimit[w] /\ epc[w] = "idle" /\ requests[w] = 0
        /\ ~enteredAfterLimit[v] /\ epc[v] = "calling"

\* the organization uuids of the upserts that returned True for leader p, in order
ExpectedUuids(p) == [i \in 1..Len(upserted[p]) |-> OrgUuid(upserted[p][i])]

\* C9 (as stated): once a run is over, a leader discovered in organization A and
\* then in organization B has exactly one stored row whose org_info_uuid list is
\* A followed by B, each organization listed once however often it was scanned.
C9_OneRowListsOrgsInOrder ==
    ldpc = "idle" => \A p \in Persons : dbRows[p].uuids = ExpectedUuids(p)

\* C10 (as stated): whatever the input spreadsheet, the organization rows that
\* extract_department_info produces have pairwise distinct uuid values.
C10_UuidsPairwiseDistinct == UuidsDistinct(departments)

\* C11: a run of the acquisition that found an organization's remark non-empty
\* makes no fetch attempt for that organization and does not write its remark.
C11_FilledRemarkNotFetched ==
    \A r \in AcqRuns, o \in AcqOrgs :
        (apc[r] # "new" /\ organizations[r][o] # EmptyRemark) =>
            /\ o \notin fetchedBy[r]
            /\ o \notin wroteBy[r]

\* C11 witness: a run that found a remark already filled has passed that record
\* and finished without fetching it
C11_Witness ==
    \E r \in AcqRuns, o \in AcqOrgs :
        /\ apc[r] = "done"
        /\ organizations[r][o] # EmptyRemark
        /\ remark[o] = organizations[r][o]
        /\ fetchedBy[r] # {}
        /\ o \notin fetchedBy[r]

\* C12 (as stated): a call of get_page_content that switched to a headful
\* session on its final retry performs one more fetch of the URL before it returns.
C12_HeadfulRetryFetchesOnceMore ==
    [][\A r \in AcqRuns :
          (apc[r] = "fetching" /\ apc'[r] = "loop" /\ switched'[r])
              => getsAfterSwitch'[r] >= 1]_vars

\* C13 (as stated): every browser session a fetch attempt opens is closed by the
\* end of that attempt, so none is open when the next attempt starts or after
\* fetch_page has returned or raised.
C13_SessionsClosedAfterAttempt ==
    \A t \in ScraperThreads :
        spc[t] \in {"top", "returned", "raised"} => SessionsOf(t) \cap openSessions = {}

\* C14 (as stated): when the validator asked for a proxy change, the next
\* attempt of the same fetch_page call does not run with the proxy that was
\* just rejected.
C14_RetryUsesFreshProxy ==
    \A t \in ScraperThreads :
        (spc[t] = "opened" /\ rejected[t] # NoneRef) => attemptProxy[t] # rejected[t]

\* thread t is inside an attempt that has opened a session and not yet closed it
InOwnSession(t) == spc[t] \in {"opened", "fin_check", "fin_close"} /\ opened[t] # NoneRef

\* C20 (as stated): with several threads on one BaikeScraper, the session a
\* thread's attempt opened stays open and stays the one self.selenium_scraper
\* refers to until that attempt closes it itself.
C20_SessionOwnedByItsThread ==
    \A t \in ScraperThreads :
        InOwnSession(t) => (selenium_scraper = opened[t] /\ opened[t] \in openSessions)

\* C15 (as stated): no extraction run overwrites an office_addr value that is
\* already populated.
C15_OfficeAddrNeverOverwritten ==
    [][\A o \in ExtOrgs :
          office_addr[o] # EmptyAddr => office_addr'[o] = office_addr[o]]_vars

\* C16 (as stated): a producer uses one held proxy for at most 5 fetches before
\* it discards it and asks the pool for a fresh one.
C16_AtMostFiveUsesPerProxy ==
    \A t \in Threads : holdKind[t] = "producer" => usage[t] <= 5

\* C17 (as stated): a candidate name is accepted exactly when it contains a dot
\* character, or its length is between 1 and 4 and it contains no blocklist term.
C17_AcceptedIffDotOrShortClean ==
    namepc = "checked" =>
        (accepted <=> (\/ HasDot(candidate)
                       \/ (/\ Len(candidate) >= 1
                           /\ Len(candidate) <= MaxPlainNameLen
                           /\ ~HasKeyword(candidate))))

\* C17 (amended): a name of 1 to 4 characters is accepted exactly when it
\* contains no blocklist term, whether or not it has a dot; a longer name is
\* accepted exactly when it contains a dot character; the empty name is rejected.
C17_DotOnlyRescuesLongNames ==
    namepc = "checked" =>
        (accepted <=> (\/ (/\ Len(candidate) >= 1
                           /\ Len(candidate) <= MaxPlainNameLen
                           /\ ~HasKeyword(candidate))
                       \/ (/\ Len(candidate) > MaxPlainNameLen
                           /\ HasDot(candidate))))

\* C17 witness: a short name with a dot and a blocklist term was rejected, and
\* the checked names include a long one accepted for its dot
C17_Witness ==
    /\ namepc = "checked"
    /\ Len(candidate) <= MaxPlainNameLen
    /\ HasDot(candidate)
    /\ HasKeyword(candidate)
    /\ ~accepted

\* C18: within one producer a failed task is re-queued at the tail: whenever a
\* task is fetched again, every task that was in the producer's list when it
\* last failed has been taken from the head of the list since.
C18_RetriedAfterPendingTasks ==
    [][\A t \in ChunkTasks : tries'[t] = tries[t] + 1 => stillAhead[t] = {}]_vars

\* C18 witness: a task failed with other tasks pending, all of them were taken
\* from the head, and the task was then fetched a second time
C18_Witness ==
    \E t \in ChunkTasks :
        /\ tries[t] >= 2
        /\ Cardinality(pendingAtFailure[t]) >= 2
        /\ retry_counts[t] = 1

\* C19: with two or more consumers, when the fetch stage has ended and every
\* consumer has made its final save, the CSV shows the outcome of every result
\* any consumer processed.
C19_CsvReflectsEveryResult ==
    (mainpc = "returned" /\ \A c \in Consumers : cpc[c] = "exited") =>
        \A res \in consumed : csv[res.task] = CachedCell(res)

\* C21: when the parse stage runs after the fetch stage on the same DataProcessor,
\* every cached, not yet parsed task has been parsed and its result consumed by
\* the time the parse stage returns.
C21_FullRunParsesEveryCachedTask ==
    mainFull = "returned" => toParse \subseteq parsedConsumed

\* C22: every leader upsert that reported success is durably stored: once the
\* run is over (ended, or cut short after a rollback caused by another leader's
\* failure) the committed row of the leader lists the organization of each
\* successful upsert.
C22_SuccessfulUpsertsAreDurable ==
    ldpc = "idle" =>
        \A p \in Persons : \A o \in Range(upserted[p]) :
            /\ RowExists(dbRows[p])
            /\ o \in Range(dbRows[p].ids)

\* C23: on rate-limit or timeout errors one extraction call makes at most 3 API
\* requests, and a call whose third request also failed that way ends by
\* raising the error to its caller.
C23_ThreeAttemptsThenPropagate ==
    \A w \in Workers :
        /\ requests[w] <= ApiMaxRetries
        /\ (epc[w] = "idle" /\ retry_count[w] = ApiMaxRetries) =>
               call_outcome[w] = "raised"

\* C24: every API request, retries included, comes after a pass through the
\* shared rate limiter, so any two consecutive requests of all the worker
\* threads together are at least 1 / request_rate apart.
C24_RequestsAtLeastGapApart ==
    [][(sentCount' = sentCount + 1 /\ sentCount > 0) =>
           lastSent' - lastSent >= RequestGap]_vars

\* C25: on every stored leader row the org_info_id, org_info_uuid and org_name
\* lists have the same number of entries, and the i-th entries of the three
\* lists belong to the same organization.
C25_RowListsAligned ==
    \A p \in Persons :
        LET row == dbRows[p]
        IN  /\ Len(row.ids) = Len(row.uuids)
            /\ Len(row.ids) = Len(row.names)
            /\ \A i \in 1..Len(row.ids) :
                  /\ row.uuids[i] = OrgUuid(row.ids[i])
                  /\ row.names[i] = orgNames[row.ids[i]]

\* C26: if a run was interrupted after upserting only some of an organization's
\* leaders, a later run still discovers and upserts the others: when a run has
\* gone through all records, and no upsert ever failed, every leader linked on
\* a stored page has had a successful upsert for that organization.
C26_LaterRunCompletesOrganization ==
    [][(/\ ldpc = "running" /\ ldpc' = "idle"
        /\ pending = <<>> /\ recIdx \notin OrgIds
        /\ ~upsertFailed)
       => \A o \in hasRemark : \A p \in Range(orgLeaders[o]) :
              o \in Range(upserted[p])]_vars

\* C27: a field the content extractor populated and for which the table
\* extractor found no value is written with the content-derived value; an
\* empty table result never erases it.
C27_EmptyTableResultKeepsContent ==
    mpc = "written" =>
        \A f \in DOMAIN content_data :
            (f \notin DOMAIN table_result \/ table_result[f] = NoText) =>
                leaderRow[f] = ContentText

\* C28: after a person's page has been fetched and saved, the next task load
\* reports the person as cached, for every person name.
C28_SavedPageIsReportedCached ==
    cachepc = "loaded" => is_cached_flag

\* C29: after the export every pair of people has at most one COLLEAGUES edge,
\* and a pair that qualifies for both the current-employment pass and the
\* historical pass has the edge tagged 'till now'.
C29_OneColleagueEdgePerPair ==
    gpc = "done" =>
        \A a \in People, b \in People :
            a < b =>
                LET edges == {e \in colleagues : e.a = a /\ e.b = b}
                IN  /\ Cardinality(edges) <= 1
                    /\ (\E o \in GraphOrgs, h \in GraphOrgs :
                            /\ <<a, o>> \in works_for /\ <<b, o>> \in works_for
                            /\ worked_at[a][h] # NoStint /\ worked_at[b][h] # NoStint
                            /\ StintsOverlap(worked_at[a][h], worked_at[b][h]))
                       => \A e \in edges : e.overlapPeriod = "till now"

\* the later of two starts and the earlier of two ends, as <<year, month>>,
\* a missing month read as January for a start and December for an end
LaterStart(a, b) ==
    IF StartMonths(a) >= StartMonths(b) THEN <<a.startYear, Coalesce(a.startMonth, 1)>>
    ELSE <<b.startYear, Coalesce(b.startMonth, 1)>>

EarlierEnd(a, b) ==
    IF EndMonths(a) <= EndMonths(b) THEN <<a.endYear, Coalesce(a.endMonth, 12)>>
    ELSE <<b.endYear, Coalesce(b.endMonth, 12)>>

TwoDigits(m) == <<m \div 10, m % 10>>

\* C30: for two STUDIED_AT periods at the same school whose years are known,
\* atTheSameTime is true exactly when the later start is not after the earlier
\* end, and whenever it is true the SCHOOLMATES edge carries the overlap period
\* from the later start to the earlier end as YYYY.MM-YYYY.MM.
C30_OverlapFlagAndPeriod ==
    (/\ schoolpc = "created"
     /\ r1.startYear # NullProp /\ r1.endYear # NullProp
     /\ r2.startYear # NullProp /\ r2.endYear # NullProp
     /\ StartMonths(r1) <= EndMonths(r1) /\ StartMonths(r2) <= EndMonths(r2))
    => LET s == LaterStart(r1, r2)
           e == EarlierEnd(r1, r2)
       IN  /\ atTheSameTime <=> (s[1] * 12 + s[2] <= e[1] * 12 + e[2])
           /\ atTheSameTime =>
                 overlapPeriod = <<s[1], ".", TwoDigits(s[2]), "-", e[1], ".", TwoDigits(e[2])>>

====
